---- MODULE Spec2Model ----
(***************************************************************************)
(* The JSON:API store of src/src/pinia-json-api.ts                         *)
(* (definePiniaJsonApiStore): the model registry, the identity map         *)
(* recordsByType, the record instances (a heap of objects addressed by     *)
(* reference), the graph materializer resourcesToRecords, and the store    *)
(* operations createRecord, findAll, findRecord, findRelated, unloadAll.   *)
(* An async operation is two steps: the call (everything up to the await   *)
(* of the fetcher) and the response (everything after it).                 *)
(***************************************************************************)
EXTENDS Integers, Sequences, FiniteSets, Bags, TLC

VARIABLES
  definitions,    \* config.modelDefinitions
  kebabCase,      \* config.kebabCase
  modelRegistry,  \* Map<ctor, type>
  modelsByType,   \* Map<type, ctor>
  relsRegistry,   \* Map<ctor, Record<name, Relationship>>
  recordsByType,  \* Map<type, Map<id, reference>>
  heap,           \* every Model instance allocated so far, by reference
  inflight,       \* the fetcher calls awaiting their answer, a bag
  server,         \* the documents the fetcher can answer with
  app,            \* the constructors the calling application names
  calls,          \* the store operations the calling application invokes
  asked,          \* the relationship names it passes to findRelated
  ops,            \* number of store operations invoked so far
  returned,       \* the (type, id, instance) findRecord and findAll have
                  \* returned since the last unloadAll
  last            \* what the last step did and returned

vars == <<definitions, kebabCase, modelRegistry, modelsByType, relsRegistry, recordsByType,
          heap, inflight, server, app, calls, asked, ops, returned, last>>

config == <<definitions, kebabCase, modelRegistry, modelsByType, relsRegistry, server, app,
            calls, asked>>

----------------------------------------------------------------------------
(* Bounds *)

MaxOps == 3
MaxInflight == 2

----------------------------------------------------------------------------
(* JavaScript values held in a field or carried by a wire payload.  One   *)
(* shape for all of them: kind, a string, a sequence of references.        *)

Str(s) == [kind |-> "str", s |-> s, rs |-> <<>>]
Null == [kind |-> "null", s |-> "", rs |-> <<>>]
Undefined == [kind |-> "undefined", s |-> "", rs |-> <<>>]
One(r) == [kind |-> "record", s |-> "", rs |-> <<r>>]
Many(rs) == [kind |-> "array", s |-> "", rs |-> rs]

\* RelationshipType
HasMany == 0
BelongsTo == 1

\* The property names a record of the model can carry.
FieldNames ==
  {"id", "title", "body", "firstName", "lastName", "first-name", "author", "comments"}

Ids == {"1", "2"}

----------------------------------------------------------------------------
(* Model classes and model definitions *)

\* class fields set by `new ctor(id)`: the id, and the field initializers
NewModel(ctor, id) ==
  [ctor |-> ctor,
   f |-> [n \in FieldNames |->
            IF n = "id" THEN Str(id)
            ELSE IF n = "author" /\ ctor \in {"Comment", "Article"} THEN Null
            ELSE IF n = "comments" /\ ctor = "Article" THEN Many(<<>>)
            ELSE Undefined]]

\* The constructors a caller can name; Tag is not registered with the store.
Ctors == {"Person", "Comment", "Article", "Tag"}

NoRels == [present |-> FALSE, names |-> {}, ctor |-> [n \in {} |-> ""], type |-> [n \in {} |-> 0]]

Rels(names, ctor, type) == [present |-> TRUE, names |-> names, ctor |-> ctor, type |-> type]

modelDefinitions ==
  << [type |-> "people", ctor |-> "Person", rels |-> NoRels],
     [type |-> "comments", ctor |-> "Comment",
      rels |-> Rels({"author"}, [n \in {"author"} |-> "Person"],
                    [n \in {"author"} |-> BelongsTo])],
     [type |-> "articles", ctor |-> "Article",
      rels |-> Rels({"author", "comments"},
                    [n \in {"author", "comments"} |->
                       IF n = "author" THEN "Person" ELSE "Comment"],
                    [n \in {"author", "comments"} |->
                       IF n = "author" THEN BelongsTo ELSE HasMany])] >>

\* a definition list that registers one constructor under two types
twiceRegistered ==
  << [type |-> "people", ctor |-> "Person", rels |-> NoRels],
     [type |-> "authors", ctor |-> "Person", rels |-> NoRels] >>

\* Map.set in a loop: put(m, k, v) is m after m.set(k, v)
put(m, k, v) == [x \in (DOMAIN m) \cup {k} |-> IF x = k THEN v ELSE m[x]]

EmptyMap == [x \in {} |-> 0]

\* the names every object inherits from Object.prototype; "constructor" is
\* the one callers use here
ObjectPrototype == {"constructor"}

\* what rels[name] is: a declared Relationship, a member inherited from
\* Object.prototype (truthy, with neither ctor nor type), or undefined
relOf(rels, name) ==
  IF name \in rels.names THEN "declared"
  ELSE IF name \in ObjectPrototype THEN "inherited"
  ELSE "undefined"

RECURSIVE registerAll(_, _, _)
\* the registration loop of definePiniaJsonApiStore, from definition i on
registerAll(defs, i, reg) ==
  IF i > Len(defs) THEN reg
  ELSE LET d == defs[i]
           next == [modelRegistry |-> put(reg.modelRegistry, d.ctor, d.type),
                    modelsByType |-> put(reg.modelsByType, d.type, d.ctor),
                    relsRegistry |-> IF d.rels.present
                                       THEN put(reg.relsRegistry, d.ctor, d.rels)
                                       ELSE reg.relsRegistry,
                    recordsByType |-> put(reg.recordsByType, d.type, EmptyMap)]
       IN registerAll(defs, i + 1, next)

EmptyRegistry ==
  [modelRegistry |-> EmptyMap, modelsByType |-> EmptyMap,
   relsRegistry |-> EmptyMap, recordsByType |-> EmptyMap]

----------------------------------------------------------------------------
(* camel *)

\* str.replace(/[-][a-z...]/g, m => m.slice(1).toUpperCase()) on the names
\* of the model; a name without "-" followed by a letter is unchanged
camelReplace(str) == IF str = "first-name" THEN "firstName" ELSE str

camel(str) == IF kebabCase THEN camelReplace(str) ELSE str

----------------------------------------------------------------------------
(* The store as a value: S.heap and S.recs are heap and recordsByType      *)
(* while a handler runs, S.err the error it has thrown ("" for none) and   *)
(* S.out the references it has produced.  A throw keeps what was written   *)
(* before it.                                                              *)

Store(h, r) == [heap |-> h, recs |-> r, err |-> "", out |-> <<>>]

Throw(S, msg) == [S EXCEPT !.err = msg]

\* as getModelType, but a constructor that is not registered is taken for Person
getModelType_Defaulting(ctor) ==
  IF ctor \in DOMAIN modelRegistry /\ modelRegistry[ctor] # "" THEN modelRegistry[ctor]
  ELSE "people"

\* modelRegistry.get(ctor), "" when it throws
getModelType(ctor) ==
  IF ctor \in DOMAIN modelRegistry /\ modelRegistry[ctor] # "" THEN modelRegistry[ctor] ELSE ""

\* modelsByType.get(type), "" when it throws
getModel(type) ==
  IF type \in DOMAIN modelsByType THEN modelsByType[type] ELSE ""

RECURSIVE assignProperties_Clearing(_, _, _)
\* as assignProperties, but the fields no entry names are reset first
assignProperties_Clearing(fields, properties, i) ==
  IF i > Len(properties) THEN fields
  ELSE LET key == properties[i].key
           value == properties[i].value
           from == IF i = 1
                     THEN [k \in DOMAIN fields |-> IF k = "id" THEN fields[k] ELSE Undefined]
                     ELSE fields
       IN assignProperties_Clearing(
            IF value # Undefined THEN [from EXCEPT ![camel(key)] = value] ELSE from,
            properties, i + 1)

RECURSIVE assignProperties_SkipNull(_, _, _)
\* as assignProperties, but a null value is skipped like an undefined one
assignProperties_SkipNull(fields, properties, i) ==
  IF i > Len(properties) THEN fields
  ELSE LET key == properties[i].key
           value == properties[i].value
       IN assignProperties_SkipNull(
            IF value # Undefined /\ value # Null THEN [fields EXCEPT ![camel(key)] = value]
            ELSE fields,
            properties, i + 1)

RECURSIVE assignProperties(_, _, _)
\* for (const [key, value] of Object.entries(properties))
\*   if (value !== undefined) record[camel(key)] = value
assignProperties(fields, properties, i) ==
  IF i > Len(properties) THEN fields
  ELSE LET key == properties[i].key
           value == properties[i].value
       IN assignProperties(
            IF value # Undefined THEN [fields EXCEPT ![camel(key)] = value] ELSE fields,
            properties, i + 1)

\* as internalCreateRecord, but a new instance even when the id is held
internalCreateRecord_AlwaysNew(S, ctor, id, properties) ==
  IF S.err # "" THEN S
  ELSE IF getModelType(ctor) = "" THEN Throw(S, "Model not defined")
  ELSE LET type == getModelType(ctor) IN
    IF type \notin DOMAIN S.recs THEN Throw(S, "Model not defined")
    ELSE LET ref == Len(S.heap) + 1
             record == NewModel(ctor, id)
             written == [record EXCEPT !.f = assignProperties(record.f, properties, 1)]
         IN [heap |-> Append(S.heap, written),
             recs |-> [S.recs EXCEPT ![type] = put(S.recs[type], id, ref)],
             err |-> "",
             out |-> Append(S.out, ref)]

\* as internalCreateRecord, but a held record is reset to a new instance's
\* fields before the properties are written
internalCreateRecord_Resetting(S, ctor, id, properties) ==
  IF S.err # "" THEN S
  ELSE IF getModelType(ctor) = "" THEN Throw(S, "Model not defined")
  ELSE LET type == getModelType(ctor) IN
    IF type \notin DOMAIN S.recs THEN Throw(S, "Model not defined")
    ELSE LET recordMap == S.recs[type]
             found == id \in DOMAIN recordMap
             ref == IF found THEN recordMap[id] ELSE Len(S.heap) + 1
             record == NewModel(ctor, id)
             written == [record EXCEPT !.f = assignProperties(record.f, properties, 1)]
         IN [heap |-> IF found THEN [S.heap EXCEPT ![ref] = written]
                      ELSE Append(S.heap, written),
             recs |-> [S.recs EXCEPT ![type] = put(recordMap, id, ref)],
             err |-> "",
             out |-> Append(S.out, ref)]

\* the record of `recordMap.get(id)`, or a new instance of ctor
internalCreateRecord(S, ctor, id, properties) ==
  IF S.err # "" THEN S
  ELSE IF getModelType(ctor) = "" THEN Throw(S, "Model not defined")
  ELSE LET type == getModelType(ctor) IN
    IF type \notin DOMAIN S.recs THEN Throw(S, "Model not defined")
    ELSE LET recordMap == S.recs[type]
             found == id \in DOMAIN recordMap
             ref == IF found THEN recordMap[id] ELSE Len(S.heap) + 1
             record == IF found THEN S.heap[ref] ELSE NewModel(ctor, id)
             written == [record EXCEPT !.f = assignProperties(record.f, properties, 1)]
         IN [heap |-> IF found THEN [S.heap EXCEPT ![ref] = written]
                      ELSE Append(S.heap, written),
             recs |-> [S.recs EXCEPT ![type] = put(recordMap, id, ref)],
             err |-> "",
             out |-> Append(S.out, ref)]

----------------------------------------------------------------------------
(* Wire format (src/src/json-api.ts) *)

\* one entry of Object.entries(attributes) or of createRecord's properties
Prop(key, value) == [key |-> key, value |-> value]

\* JsonApiResourceIdentifier
Rid(type, id) == [type |-> type, id |-> id]

\* JsonApiRelationship.data: null, one identifier, or an array of them
DataNull == [kind |-> "null", ids |-> <<>>]
DataOne(rid) == [kind |-> "one", ids |-> <<rid>>]
DataMany(rids) == [kind |-> "many", ids |-> rids]

\* one entry of Object.entries(resource.relationships)
RelEntry(name, data) == [name |-> name, data |-> data]

NoRelationships == [present |-> FALSE, entries |-> <<>>]
Relationships(entries) == [present |-> TRUE, entries |-> entries]

\* JsonApiResource
Resource(type, id, attributes, relationships) ==
  [type |-> type, id |-> id, attributes |-> attributes, relationships |-> relationships]

NoIncluded == [present |-> FALSE, items |-> <<>>]
Included(items) == [present |-> TRUE, items |-> items]

\* JsonApiDocument: data (the resources, one for a single-resource document)
\* and the optional included
Document(data, included) == [data |-> data, included |-> included]

----------------------------------------------------------------------------
(* Graph materializer *)

RECURSIVE resolveIds_Reversed(_, _, _)
\* as resolveIds, but the records come out in the reverse of the wire order
resolveIds_Reversed(relTypeRecords, rids, i) ==
  IF i > Len(rids) THEN <<>>
  ELSE IF rids[i].id \in DOMAIN relTypeRecords
       THEN resolveIds_Reversed(relTypeRecords, rids, i + 1) \o <<relTypeRecords[rids[i].id]>>
       ELSE resolveIds_Reversed(relTypeRecords, rids, i + 1)

RECURSIVE resolveIds(_, _, _)
\* rids.filter((d) => relTypeRecords.has(d.id)).map((d) => getRecord(relTypeRecords, d.id))
resolveIds(relTypeRecords, rids, i) ==
  IF i > Len(rids) THEN <<>>
  ELSE IF rids[i].id \in DOMAIN relTypeRecords
       THEN <<relTypeRecords[rids[i].id]>> \o resolveIds(relTypeRecords, rids, i + 1)
       ELSE resolveIds(relTypeRecords, rids, i + 1)

\* as populateRelationship, but the identifiers are not filtered: getRecord
\* throws on one that is not held
populateRelationship_NoFilter(S, ref, recordCtor, name, reldoc) ==
  IF recordCtor \notin DOMAIN relsRegistry THEN S
  ELSE LET rels == relsRegistry[recordCtor]
           normalizedName == camel(name)
       IN
    IF relOf(rels, normalizedName) = "undefined" THEN Throw(S, "Relationship not defined")
    ELSE IF relOf(rels, normalizedName) = "inherited" THEN Throw(S, "TypeError")
    ELSE LET relCtor == rels.ctor[normalizedName]
             relKind == rels.type[normalizedName]
             relType == getModelType(relCtor)
         IN
      IF relType = "" THEN Throw(S, "Model not defined")
      ELSE IF relType \notin DOMAIN S.recs THEN S
      ELSE IF relKind = HasMany /\ reldoc.data.kind # "many" THEN Throw(S, "TypeError")
      ELSE IF relKind # HasMany /\ reldoc.data.kind = "null" THEN Throw(S, "TypeError")
      ELSE LET rids == IF reldoc.data.kind = "many" /\ relKind # HasMany
                         THEN <<>>
                         ELSE reldoc.data.ids
               relRecords == resolveIds(S.recs[relType], rids, 1)
               value == IF relKind = HasMany THEN Many(relRecords)
                        ELSE IF Len(relRecords) > 0 THEN One(relRecords[1])
                        ELSE Undefined
           IN IF Len(relRecords) < Len(rids) THEN Throw(S, "Record not found")
              ELSE [S EXCEPT !.heap[ref].f[normalizedName] = value]

\* as populateRelationship, but a has-many field keeps the records it held
\* and the resolved ones are pushed after them
populateRelationship_Appending(S, ref, recordCtor, name, reldoc) ==
  IF recordCtor \notin DOMAIN relsRegistry THEN S
  ELSE LET rels == relsRegistry[recordCtor]
           normalizedName == camel(name)
       IN
    IF relOf(rels, normalizedName) = "undefined" THEN Throw(S, "Relationship not defined")
    ELSE IF relOf(rels, normalizedName) = "inherited" THEN Throw(S, "TypeError")
    ELSE LET relCtor == rels.ctor[normalizedName]
             relKind == rels.type[normalizedName]
             relType == getModelType(relCtor)
         IN
      IF relType = "" THEN Throw(S, "Model not defined")
      ELSE IF relType \notin DOMAIN S.recs THEN S
      ELSE IF relKind = HasMany /\ reldoc.data.kind # "many" THEN Throw(S, "TypeError")
      ELSE IF relKind # HasMany /\ reldoc.data.kind = "null" THEN Throw(S, "TypeError")
      ELSE LET rids == IF reldoc.data.kind = "many" /\ relKind # HasMany
                         THEN <<>>  \* [array]: array.id is undefined, filtered out
                         ELSE reldoc.data.ids
               relRecords == resolveIds(S.recs[relType], rids, 1)
               held == IF S.heap[ref].f[normalizedName].kind = "array"
                         THEN S.heap[ref].f[normalizedName].rs ELSE <<>>
               value == IF relKind = HasMany THEN Many(held \o relRecords)
                        ELSE IF Len(relRecords) > 0 THEN One(relRecords[1])
                        ELSE Undefined
           IN [S EXCEPT !.heap[ref].f[normalizedName] = value]

\* one iteration of the loop over Object.entries(resource.relationships)
populateRelationship(S, ref, recordCtor, name, reldoc) ==
  IF recordCtor \notin DOMAIN relsRegistry THEN S
  ELSE LET rels == relsRegistry[recordCtor]
           normalizedName == camel(name)
       IN
    IF relOf(rels, normalizedName) = "undefined" THEN Throw(S, "Relationship not defined")
    ELSE IF relOf(rels, normalizedName) = "inherited" THEN Throw(S, "TypeError")
    ELSE LET relCtor == rels.ctor[normalizedName]
             relKind == rels.type[normalizedName]
             relType == getModelType(relCtor)
         IN
      IF relType = "" THEN Throw(S, "Model not defined")
      ELSE IF relType \notin DOMAIN S.recs THEN S
      ELSE IF relKind = HasMany /\ reldoc.data.kind # "many" THEN Throw(S, "TypeError")
      ELSE IF relKind # HasMany /\ reldoc.data.kind = "null" THEN Throw(S, "TypeError")
      ELSE LET rids == IF reldoc.data.kind = "many" /\ relKind # HasMany
                         THEN <<>>  \* [array]: array.id is undefined, filtered out
                         ELSE reldoc.data.ids
               relRecords == resolveIds(S.recs[relType], rids, 1)
               value == IF relKind = HasMany THEN Many(relRecords)
                        ELSE IF Len(relRecords) > 0 THEN One(relRecords[1])
                        ELSE Undefined
           IN [S EXCEPT !.heap[ref].f[normalizedName] = value]

RECURSIVE populateEntries(_, _, _, _, _)
populateEntries(S, ref, recordCtor, entries, i) ==
  IF i > Len(entries) \/ S.err # "" THEN S
  ELSE populateEntries(
         populateRelationship(S, ref, recordCtor, entries[i].name, entries[i]),
         ref, recordCtor, entries, i + 1)

populateRelationships(S, resource) ==
  IF S.err # "" THEN S
  ELSE IF resource.type \notin DOMAIN S.recs THEN Throw(S, "Model not defined")
  ELSE IF resource.id \notin DOMAIN S.recs[resource.type] THEN Throw(S, "Record not found")
  ELSE IF getModel(resource.type) = "" THEN Throw(S, "Model not defined")
  ELSE IF ~resource.relationships.present THEN S
  ELSE populateEntries(S, S.recs[resource.type][resource.id], getModel(resource.type),
                       resource.relationships.entries, 1)

RECURSIVE populateAll(_, _, _)
\* resources.map(populateRelationships)
populateAll(S, resources, i) ==
  IF i > Len(resources) \/ S.err # "" THEN S
  ELSE populateAll(populateRelationships(S, resources[i]), resources, i + 1)

\* as createIncluded, but a resource of a type that is not registered is
\* passed over
createIncluded_Skipping(S, resource) ==
  IF S.err # "" THEN S
  ELSE IF getModel(resource.type) = "" THEN S
  ELSE internalCreateRecord(S, getModel(resource.type), resource.id, resource.attributes)

\* the inner createRecord(resource) of resourcesToRecords
createIncluded(S, resource) ==
  IF S.err # "" THEN S
  ELSE IF getModel(resource.type) = "" THEN Throw(S, "Model not defined")
  ELSE internalCreateRecord(S, getModel(resource.type), resource.id, resource.attributes)

RECURSIVE createAllIncluded(_, _, _)
createAllIncluded(S, included, i) ==
  IF i > Len(included) \/ S.err # "" THEN S
  ELSE createAllIncluded(createIncluded(S, included[i]), included, i + 1)

RECURSIVE createAllMain(_, _, _, _)
\* resources.map((r) => internalCreateRecord(ctor, r.id, r.attributes))
createAllMain(S, ctor, resources, i) ==
  IF i > Len(resources) \/ S.err # "" THEN S
  ELSE createAllMain(internalCreateRecord(S, ctor, resources[i].id, resources[i].attributes),
                     ctor, resources, i + 1)

\* as resourcesToRecords, but only the primary resources are linked
resourcesToRecords_PrimaryOnly(S, ctor, resources, included) ==
  LET S1 == IF included.present THEN createAllIncluded(S, included.items, 1) ELSE S
      S2 == createAllMain([S1 EXCEPT !.out = <<>>], ctor, resources, 1)
      S3 == IF included.present THEN populateAll(S2, resources, 1) ELSE S2
  IN S3

\* as resourcesToRecords, but the resources are linked without included too
resourcesToRecords_AlwaysLink(S, ctor, resources, included) ==
  LET S1 == IF included.present THEN createAllIncluded(S, included.items, 1) ELSE S
      S2 == createAllMain([S1 EXCEPT !.out = <<>>], ctor, resources, 1)
      S3 == populateAll(populateAll(S2, resources, 1), included.items, 1)
  IN S3

\* as resourcesToRecords, but an empty included list counts as no included
resourcesToRecords_NonEmptyIncluded(S, ctor, resources, included) ==
  LET S1 == IF included.present THEN createAllIncluded(S, included.items, 1) ELSE S
      S2 == createAllMain([S1 EXCEPT !.out = <<>>], ctor, resources, 1)
      S3 == IF included.present /\ included.items # <<>>
              THEN populateAll(populateAll(S2, resources, 1), included.items, 1)
              ELSE S2
  IN S3

\* S.out of the result: the records of `resources`, in order
resourcesToRecords(S, ctor, resources, included) ==
  LET S1 == IF included.present THEN createAllIncluded(S, included.items, 1) ELSE S
      S2 == createAllMain([S1 EXCEPT !.out = <<>>], ctor, resources, 1)
      S3 == IF included.present
              THEN populateAll(populateAll(S2, resources, 1), included.items, 1)
              ELSE S2
  IN S3

----------------------------------------------------------------------------
(* State *)

\* a fetcher call awaiting its answer, and the operation that awaits it
Pending(op, fetch, ctor, id, name, ref) ==
  [op |-> op, fetch |-> fetch, ctor |-> ctor, id |-> id, name |-> name, ref |-> ref]

\* the fetcher takes another call
CanFetch == BagCardinality(inflight) < MaxInflight

Awaiting(rq) == inflight (+) SetToBag({rq})

Answered(rq) == inflight (-) SetToBag({rq})

\* what a step did: the operation, its arguments, how it ended ("await",
\* "return" or "throw"), the error thrown and the records returned
Did(op, end, ctor, id, name, ref, err, out) ==
  [op |-> op, end |-> end, ctor |-> ctor, id |-> id, name |-> name, ref |-> ref,
   err |-> err, out |-> out]

Ended(op, ctor, id, name, ref, S) ==
  Did(op, IF S.err = "" THEN "return" ELSE "throw", ctor, id, name, ref, S.err,
      IF S.err = "" THEN S.out ELSE <<>>)

\* findRecord or findAll has returned instance ref for (type, id)
Returned(type, id, ref) == [type |-> type, id |-> id, ref |-> ref]

\* the store the handler starts from
Current == Store(heap, recordsByType)

----------------------------------------------------------------------------
(* Store operations *)

RECURSIVE propertyOf(_, _, _)
\* properties[key]: the value of the entry named key, Undefined when absent
propertyOf(properties, key, i) ==
  IF i > Len(properties) THEN Undefined
  ELSE IF properties[i].key = key THEN properties[i].value
  ELSE propertyOf(properties, key, i + 1)

\* what generateId() can return: a fresh string, or by chance one in use
GeneratedIds == Ids

\* the createRecord calls callers make: a constructor and a property list
CreateCall(ctor, properties) == [ctor |-> ctor, properties |-> properties]

CreateCalls ==
  { CreateCall("Person", <<Prop("firstName", Str("test"))>>),
    CreateCall("Article", <<Prop("id", Str("1")), Prop("title", Undefined),
                            Prop("lastName", Str("test"))>>),
    CreateCall("Tag", <<Prop("id", Str("1"))>>) }

\* as CreateRecord, but the id is always a generated one
CreateRecord_Generating(ctor, properties, generated) ==
  /\ ops < MaxOps
  /\ LET S == internalCreateRecord(Current, ctor, generated, properties)
     IN /\ heap' = S.heap
        /\ recordsByType' = S.recs
        /\ last' = Ended("createRecord", ctor, generated, "", 0, S)
  /\ ops' = ops + 1
  /\ UNCHANGED <<config, inflight, returned>>

\* createRecord(ctor, properties)
CreateRecord(ctor, properties, generated) ==
  /\ ops < MaxOps
  /\ LET given == propertyOf(properties, "id", 1)
         id == IF given.kind = "str" /\ given.s # "" THEN given.s ELSE generated
         S == internalCreateRecord(Current, ctor, id, properties)
     IN /\ heap' = S.heap
        /\ recordsByType' = S.recs
        /\ last' = Ended("createRecord", ctor, id, "", 0, S)
  /\ ops' = ops + 1
  /\ UNCHANGED <<config, inflight, returned>>

\* as UnloadAll, but only the buckets that hold no person are cleared
UnloadAll_KeepPeople ==
  /\ ops < MaxOps
  /\ recordsByType' = [t \in DOMAIN recordsByType |->
                         IF t = "people" THEN recordsByType[t] ELSE EmptyMap]
  /\ last' = Did("unloadAll", "return", "", "", "", 0, "", <<>>)
  /\ returned' = {}
  /\ ops' = ops + 1
  /\ UNCHANGED <<config, heap, inflight>>

\* as UnloadAll, but the outer map is cleared: recordsByType.clear()
UnloadAll_DroppingBuckets ==
  /\ ops < MaxOps
  /\ recordsByType' = EmptyMap
  /\ last' = Did("unloadAll", "return", "", "", "", 0, "", <<>>)
  /\ returned' = {}
  /\ ops' = ops + 1
  /\ UNCHANGED <<config, heap, inflight>>

\* as UnloadAll, but the calls in flight are abandoned: they never settle
UnloadAll_Abandoning ==
  /\ ops < MaxOps
  /\ recordsByType' = [t \in DOMAIN recordsByType |-> EmptyMap]
  /\ last' = Did("unloadAll", "return", "", "", "", 0, "", <<>>)
  /\ returned' = {}
  /\ inflight' = EmptyBag
  /\ ops' = ops + 1
  /\ UNCHANGED <<config, heap>>

\* unloadAll()
UnloadAll ==
  /\ ops < MaxOps
  /\ recordsByType' = [t \in DOMAIN recordsByType |-> EmptyMap]
  /\ last' = Did("unloadAll", "return", "", "", "", 0, "", <<>>)
  /\ returned' = {}
  /\ ops' = ops + 1
  /\ UNCHANGED <<config, heap, inflight>>

\* as FindAllCall, but the document is fetched twice
FindAllCall_Twice(ctor) ==
  /\ ops < MaxOps
  /\ IF getModelType(ctor) = ""
       THEN /\ last' = Did("findAll", "throw", ctor, "", "", 0, "Model not defined", <<>>)
            /\ UNCHANGED inflight
       ELSE /\ BagCardinality(inflight) + 2 <= MaxInflight
            /\ inflight' = inflight (+) SetToBag({Pending("findAll", "fetchDocument", ctor, "", "", 0)})
                                    (+) SetToBag({Pending("findAll", "fetchDocument", ctor, "", "", 0)})
            /\ last' = Did("findAll", "await", ctor, "", "", 0, "", <<>>)
  /\ ops' = ops + 1
  /\ UNCHANGED <<config, heap, recordsByType, returned>>

\* findAll(ctor) up to `await _fetcher.fetchDocument(type, undefined, ...)`
FindAllCall(ctor) ==
  /\ ops < MaxOps
  /\ IF getModelType(ctor) = ""
       THEN /\ last' = Did("findAll", "throw", ctor, "", "", 0, "Model not defined", <<>>)
            /\ UNCHANGED inflight
       ELSE /\ CanFetch
            /\ inflight' = Awaiting(Pending("findAll", "fetchDocument", ctor, "", "", 0))
            /\ last' = Did("findAll", "await", ctor, "", "", 0, "", <<>>)
  /\ ops' = ops + 1
  /\ UNCHANGED <<config, heap, recordsByType, returned>>

\* findAll(ctor) from the fetcher's answer on
FindAllResponse(rq, doc) ==
  /\ BagIn(rq, inflight)
  /\ rq.op = "findAll"
  /\ LET ctor == rq.ctor
         S == resourcesToRecords(Current, ctor, doc.data, doc.included)
     IN /\ heap' = S.heap
        /\ recordsByType' = S.recs
        /\ last' = Ended("findAll", ctor, "", "", 0, S)
        /\ returned' = IF S.err # "" THEN returned
                       ELSE returned \cup {Returned(getModelType(ctor), doc.data[i].id, S.out[i]) :
                                             i \in 1..Len(doc.data)}
  /\ inflight' = Answered(rq)
  /\ UNCHANGED <<config, ops>>

\* as FindRecordCall, but the fetcher is called whether or not the record is held
FindRecordCall_AlwaysFetch(ctor, id) ==
  /\ ops < MaxOps
  /\ LET type == getModelType(ctor) IN
     IF type = "" \/ type \notin DOMAIN recordsByType
       THEN /\ last' = Did("findRecord", "throw", ctor, id, "", 0, "Model not defined", <<>>)
            /\ UNCHANGED <<inflight, returned>>
       ELSE /\ CanFetch
            /\ inflight' = Awaiting(Pending("findRecord", "fetchDocument", ctor, id, "", 0))
            /\ last' = Did("findRecord", "await", ctor, id, "", 0, "", <<>>)
            /\ UNCHANGED returned
  /\ ops' = ops + 1
  /\ UNCHANGED <<config, heap, recordsByType>>

\* as FindRecordCall, but a call for a (constructor, id) that is already
\* being fetched awaits that fetch instead of issuing another
FindRecordCall_Coalescing(ctor, id) ==
  /\ ops < MaxOps
  /\ LET type == getModelType(ctor) IN
     IF type = "" \/ type \notin DOMAIN recordsByType
       THEN /\ last' = Did("findRecord", "throw", ctor, id, "", 0, "Model not defined", <<>>)
            /\ UNCHANGED <<inflight, returned>>
       ELSE IF id \in DOMAIN recordsByType[type]
         THEN /\ last' = Did("findRecord", "return", ctor, id, "", 0, "",
                             <<recordsByType[type][id]>>)
              /\ returned' = returned \cup {Returned(type, id, recordsByType[type][id])}
              /\ UNCHANGED inflight
         ELSE /\ CanFetch
              /\ inflight' = IF BagIn(Pending("findRecord", "fetchDocument", ctor, id, "", 0),
                                      inflight)
                               THEN inflight
                               ELSE Awaiting(Pending("findRecord", "fetchDocument", ctor, id, "", 0))
              /\ last' = Did("findRecord", "await", ctor, id, "", 0, "", <<>>)
              /\ UNCHANGED returned
  /\ ops' = ops + 1
  /\ UNCHANGED <<config, heap, recordsByType>>

\* findRecord(ctor, id) up to `await _fetcher.fetchDocument(type, id, ...)`,
\* or to its return when the record is held
FindRecordCall(ctor, id) ==
  /\ ops < MaxOps
  /\ LET type == getModelType(ctor) IN
     IF type = "" \/ type \notin DOMAIN recordsByType
       THEN /\ last' = Did("findRecord", "throw", ctor, id, "", 0, "Model not defined", <<>>)
            /\ UNCHANGED <<inflight, returned>>
       ELSE IF id \in DOMAIN recordsByType[type]
         THEN /\ last' = Did("findRecord", "return", ctor, id, "", 0, "",
                             <<recordsByType[type][id]>>)
              /\ returned' = returned \cup {Returned(type, id, recordsByType[type][id])}
              /\ UNCHANGED inflight
         ELSE /\ CanFetch
              /\ inflight' = Awaiting(Pending("findRecord", "fetchDocument", ctor, id, "", 0))
              /\ last' = Did("findRecord", "await", ctor, id, "", 0, "", <<>>)
              /\ UNCHANGED returned
  /\ ops' = ops + 1
  /\ UNCHANGED <<config, heap, recordsByType>>

\* findRecord(ctor, id) from the fetcher's answer on; doc.data is one resource
FindRecordResponse(rq, doc) ==
  /\ BagIn(rq, inflight)
  /\ rq.op = "findRecord"
  /\ Len(doc.data) = 1
  /\ LET ctor == rq.ctor
         id == rq.id
         type == getModelType(ctor)
         S == resourcesToRecords(Current, ctor, doc.data, doc.included)
         \* recordsMap.set(id, record)
         T == IF S.err = "" THEN [S EXCEPT !.recs[type] = put(@, id, S.out[1])] ELSE S
         \* const record = recordsMap.get(id)
         R == IF T.err = "" THEN [T EXCEPT !.out = <<T.recs[type][id]>>] ELSE T
     IN /\ heap' = R.heap
        /\ recordsByType' = R.recs
        /\ last' = Ended("findRecord", ctor, id, "", 0, R)
        /\ returned' = IF R.err # "" THEN returned
                       ELSE returned \cup {Returned(type, id, R.out[1])}
  /\ inflight' = Answered(rq)
  /\ UNCHANGED <<config, ops>>

\* the relationship names callers pass to findRelated unless said otherwise;
\* Comment declares no comments and Person declares none
RelationshipNames == {"author", "comments"}

\* findRelated(record, name) up to `await _fetcher.fetchBelongsTo(...)` or
\* `await _fetcher.fetchHasMany(...)`, on a record of a class the
\* application names
FindRelatedCall(ref, name) ==
  /\ ops < MaxOps
  /\ ref \in 1..Len(heap)
  /\ heap[ref].ctor \in app
  /\ LET ctor == heap[ref].ctor
         id == heap[ref].f["id"].s
     IN IF getModelType(ctor) = ""
          THEN /\ last' = Did("findRelated", "throw", ctor, id, name, ref, "Model not defined", <<>>)
               /\ UNCHANGED inflight
        ELSE IF ctor \notin DOMAIN relsRegistry
          THEN /\ last' = Did("findRelated", "throw", ctor, id, name, ref,
                              "Model has no relationships", <<>>)
               /\ UNCHANGED inflight
        ELSE IF relOf(relsRegistry[ctor], name) = "undefined"
          THEN /\ last' = Did("findRelated", "throw", ctor, id, name, ref,
                              "Relationship not defined", <<>>)
               /\ UNCHANGED inflight
        ELSE /\ CanFetch
             /\ inflight' = Awaiting(Pending("findRelated",
                                       IF /\ relOf(relsRegistry[ctor], name) = "declared"
                                          /\ relsRegistry[ctor].type[name] = BelongsTo
                                         THEN "fetchBelongsTo" ELSE "fetchHasMany",
                                       ctor, id, name, ref))
             /\ last' = Did("findRelated", "await", ctor, id, name, ref, "", <<>>)
  /\ ops' = ops + 1
  /\ UNCHANGED <<config, heap, recordsByType, returned>>

\* as FindRelatedResponse, but the related records are got or created as
\* records of the class of `record`
FindRelatedResponse_OwnModel(rq, doc) ==
  /\ BagIn(rq, inflight)
  /\ rq.op = "findRelated"
  /\ rq.fetch = "fetchBelongsTo" => Len(doc.data) = 1
  /\ LET rel == relsRegistry[rq.ctor]
         S == IF relOf(rel, rq.name) # "declared" THEN Throw(Current, "TypeError")
              ELSE IF rq.fetch = "fetchBelongsTo"
                THEN internalCreateRecord(Current, rq.ctor, doc.data[1].id, doc.data[1].attributes)
                ELSE createAllMain(Current, rq.ctor, doc.data, 1)
         value == IF rq.fetch = "fetchBelongsTo" THEN One(S.out[1]) ELSE Many(S.out)
         T == IF S.err = "" THEN [S EXCEPT !.heap[rq.ref].f[rq.name] = value, !.out = <<>>] ELSE S
     IN /\ heap' = T.heap
        /\ recordsByType' = T.recs
        /\ last' = Ended("findRelated", rq.ctor, rq.id, rq.name, rq.ref, T)
  /\ inflight' = Answered(rq)
  /\ UNCHANGED <<config, ops, returned>>

\* findRelated(record, name) from the fetcher's answer on
FindRelatedResponse(rq, doc) ==
  /\ BagIn(rq, inflight)
  /\ rq.op = "findRelated"
  /\ rq.fetch = "fetchBelongsTo" => Len(doc.data) = 1
  /\ LET rel == relsRegistry[rq.ctor]
         relCtor == rel.ctor[rq.name]
         \* an inherited member has no ctor: getModelType(undefined) fails on ctor.name
         S == IF relOf(rel, rq.name) # "declared" THEN Throw(Current, "TypeError")
              ELSE IF rq.fetch = "fetchBelongsTo"
                THEN internalCreateRecord(Current, relCtor, doc.data[1].id, doc.data[1].attributes)
                ELSE createAllMain(Current, relCtor, doc.data, 1)
         \* record[name] = relatedRecord, or = relatedRecords
         value == IF rq.fetch = "fetchBelongsTo" THEN One(S.out[1]) ELSE Many(S.out)
         T == IF S.err = "" THEN [S EXCEPT !.heap[rq.ref].f[rq.name] = value, !.out = <<>>] ELSE S
     IN /\ heap' = T.heap
        /\ recordsByType' = T.recs
        /\ last' = Ended("findRelated", rq.ctor, rq.id, rq.name, rq.ref, T)
  /\ inflight' = Answered(rq)
  /\ UNCHANGED <<config, ops, returned>>

\* as FetchReject, but the store calls the fetcher again instead of rethrowing
FetchReject_Retrying(rq) ==
  /\ BagIn(rq, inflight)
  /\ last' = Did(rq.op, "await", rq.ctor, rq.id, rq.name, rq.ref, "", <<>>)
  /\ inflight' = inflight
  /\ UNCHANGED <<config, heap, recordsByType, ops, returned>>

\* the fetcher rejects: the awaiting operation rethrows
FetchReject(rq) ==
  /\ BagIn(rq, inflight)
  /\ last' = Did(rq.op, "throw", rq.ctor, rq.id, rq.name, rq.ref, "transport", <<>>)
  /\ inflight' = Answered(rq)
  /\ UNCHANGED <<config, heap, recordsByType, ops, returned>>

----------------------------------------------------------------------------
(* The documents a fetcher answers with *)

\* the canonical document of tests/articles.json (jsonapi.org): article 1,
\* its author and two comments, the first comment's author not included
Dan ==
  Resource("people", "1",
           <<Prop("firstName", Str("Dan")), Prop("lastName", Str("Gebhardt"))>>,
           NoRelationships)

Comment1 ==
  Resource("comments", "1", <<Prop("body", Str("First!"))>>,
           Relationships(<<RelEntry("author", DataOne(Rid("people", "2")))>>))

Comment2 ==
  Resource("comments", "2", <<Prop("body", Str("I like XML better"))>>,
           Relationships(<<RelEntry("author", DataOne(Rid("people", "1")))>>))

Article1 ==
  Resource("articles", "1", <<Prop("title", Str("JSON:API paints my bikeshed!"))>>,
           Relationships(<<RelEntry("author", DataOne(Rid("people", "1"))),
                           RelEntry("comments", DataMany(<<Rid("comments", "1"),
                                                          Rid("comments", "2")>>))>>))

ArticlesDoc == Document(<<Article1>>, Included(<<Dan, Comment1, Comment2>>))

\* the same article fetched without include
ArticleAlone == Document(<<Article1>>, NoIncluded)

\* sparse fieldsets of person 1
PersonFirstName ==
  Document(<<Resource("people", "1", <<Prop("firstName", Str("Dan"))>>, NoRelationships)>>,
           NoIncluded)

PersonLastName ==
  Document(<<Resource("people", "1", <<Prop("lastName", Str("Gebhardt"))>>, NoRelationships)>>,
           NoIncluded)

PersonNullName ==
  Document(<<Resource("people", "1",
                      <<Prop("firstName", Null), Prop("lastName", Undefined)>>,
                      NoRelationships)>>,
           NoIncluded)

PersonKebab ==
  Document(<<Resource("people", "1", <<Prop("first-name", Str("Dan"))>>, NoRelationships)>>,
           NoIncluded)

\* relationship linkage that is null or names a resource not included
ArticleNoAuthor ==
  Document(<<Resource("articles", "1", <<>>,
                      Relationships(<<RelEntry("author", DataNull)>>))>>,
           Included(<<>>))

ArticleLostComment ==
  Document(<<Resource("articles", "1", <<>>,
                      Relationships(<<RelEntry("comments",
                                               DataMany(<<Rid("comments", "1"),
                                                          Rid("comments", "2")>>))>>))>>,
           Included(<<Resource("comments", "2", <<Prop("body", Str("I like XML better"))>>,
                               NoRelationships)>>))

CommentsDoc ==
  Document(<<Resource("comments", "1", <<Prop("body", Str("First!"))>>, NoRelationships)>>,
           NoIncluded)

CommentTwoDoc ==
  Document(<<Resource("comments", "2", <<Prop("body", Str("I like XML better"))>>,
                      NoRelationships)>>,
           NoIncluded)

\* article 1 fetched without include, with another title and other linkage
ArticleRetitled ==
  Document(<<Resource("articles", "1", <<Prop("title", Str("Rails is Omakase"))>>,
                      Relationships(<<RelEntry("author", DataOne(Rid("people", "2"))),
                                      RelEntry("comments",
                                               DataMany(<<Rid("comments", "2")>>))>>))>>,
           NoIncluded)

\* article 1 with a relationship its model does not declare beside one it does
ArticleTagged ==
  Document(<<Resource("articles", "1", <<>>,
                      Relationships(<<RelEntry("author", DataOne(Rid("people", "1"))),
                                      RelEntry("tags", DataMany(<<Rid("tags", "1")>>))>>))>>,
           Included(<<Dan>>))

\* the comments of article 1 as the fetcher's has-many answer, latest first
RelatedComments == Document(<<Comment2, Comment1>>, NoIncluded)

\* comment 2 as primary resource and again as included resource, beside
\* the article that links it
CommentTwice == Document(<<Comment2>>, Included(<<Article1, Comment2>>))

\* article 1 after its comments were removed, fetched with include: the
\* author linked is not listed again and nothing else is related
ArticleEmptied ==
  Document(<<Resource("articles", "1", <<>>,
                      Relationships(<<RelEntry("author", DataOne(Rid("people", "1"))),
                                      RelEntry("comments", DataMany(<<>>))>>))>>,
           Included(<<>>))

\* article 1 fetched with include when none of the related resources is
\* sent: the linkage is there, included is the empty list
ArticleIncludedNone == Document(<<Article1>>, Included(<<>>))

\* article 1 with its author and a tag included; the store registers no
\* model for the type 'tags'
ArticleIncludedTag ==
  Document(<<Article1>>,
           Included(<<Dan, Resource("tags", "1", <<>>, NoRelationships), Comment1>>))

\* person 1 with an attribute called id
PersonAttributeId ==
  Document(<<Resource("people", "1", <<Prop("id", Str("2")), Prop("firstName", Str("Dan"))>>,
                      NoRelationships)>>,
           NoIncluded)

\* article 1 whose author linkage names a comment; person 1 is included
ArticleAuthorComment ==
  Document(<<Resource("articles", "1", <<>>,
                      Relationships(<<RelEntry("author", DataOne(Rid("comments", "1")))>>))>>,
           Included(<<Dan>>))

\* the documents by name
Doc(name) ==
  CASE name = "articles" -> ArticlesDoc
    [] name = "article alone" -> ArticleAlone
    [] name = "person firstName" -> PersonFirstName
    [] name = "person lastName" -> PersonLastName
    [] name = "person null" -> PersonNullName
    [] name = "person kebab" -> PersonKebab
    [] name = "article no author" -> ArticleNoAuthor
    [] name = "article lost comment" -> ArticleLostComment
    [] name = "comment 1" -> CommentsDoc
    [] name = "comment 2" -> CommentTwoDoc
    [] name = "article tagged" -> ArticleTagged
    [] name = "article retitled" -> ArticleRetitled
    [] name = "related comments" -> RelatedComments
    [] name = "comment twice" -> CommentTwice
    [] name = "article emptied" -> ArticleEmptied
    [] name = "article included none" -> ArticleIncludedNone
    [] name = "article included tag" -> ArticleIncludedTag
    [] name = "person attribute id" -> PersonAttributeId
    [] name = "article author comment" -> ArticleAuthorComment

\* the operations of the store (PiniaJsonApiStore)
StoreOperations == {"createRecord", "findAll", "findRecord", "findRelated", "unloadAll"}

\* what the store is deployed against: config.kebabCase, the documents its
\* fetcher serves, and the constructors the application names in its calls;
\* config.modelDefinitions, the records the application has constructed
\* itself with `new ctor(id)`, the operations it invokes and the
\* relationship names it passes to findRelated
Deployment(k, docs, ctors) ==
  [kebabCase |-> k, server |-> docs, app |-> ctors,
   definitions |-> modelDefinitions, made |-> <<>>,
   calls |-> StoreOperations, asked |-> RelationshipNames]

Calling(d, operations) == [d EXCEPT !.calls = operations]

Asking(d, names) == [d EXCEPT !.asked = names]

Defining(d, defs) == [d EXCEPT !.definitions = defs]

Making(d, records) == [d EXCEPT !.made = records]

Deployments ==
  { Calling(Deployment(FALSE, {"articles", "article alone", "article retitled"}, {"Article"}),
            {"findAll", "findRecord", "findRelated", "unloadAll"}),
    Calling(Deployment(FALSE, {"articles"}, {"Article", "Person"}), {"findAll", "findRecord"}),
    Calling(Deployment(FALSE, {"person firstName"}, {"Article", "Person"}),
            {"createRecord", "findRecord"}),
    Deployment(FALSE, {"person firstName", "person lastName", "person null"},
               {"Person", "Tag"}),
    Deployment(TRUE, {"person kebab", "person lastName"}, {"Person"}),
    Deployment(FALSE, {"article no author"}, {"Article"}),
    Calling(Deployment(FALSE, {"articles", "article lost comment"}, {"Article"}),
            {"findAll"}),
    Deployment(FALSE, {"comment 1", "comment 2"}, {"Comment"}),
    Deployment(FALSE, {"article tagged"}, {"Article"}),
    Defining(Calling(Deployment(FALSE, {"person firstName"}, {"Person"}), {"createRecord"}),
             twiceRegistered),
    Making(Deployment(FALSE, {"person firstName"}, {"Tag"}), <<NewModel("Tag", "1")>>),
    Asking(Calling(Deployment(FALSE, {"related comments"}, {"Article", "Comment"}),
                   {"createRecord", "findRelated", "findRecord"}),
           {"comments"}),
    Calling(Deployment(FALSE, {"comment twice"}, {"Comment", "Article"}), {"findAll"}),
    Calling(Deployment(FALSE, {"articles", "article emptied"}, {"Article"}), {"findAll"}),
    Calling(Deployment(FALSE, {"article lost comment", "article included none"}, {"Article"}),
            {"findAll"}),
    Calling(Deployment(FALSE, {"comment twice", "comment 1"}, {"Comment"}),
            {"findAll", "findRecord"}),
    Calling(Deployment(FALSE, {"article included tag"}, {"Article"}), {"findAll", "findRecord"}),
    Calling(Deployment(FALSE, {"person attribute id"}, {"Person"}), {"findAll"}),
    Calling(Deployment(FALSE, {"article author comment"}, {"Article"}), {"findAll"}),
    Asking(Calling(Deployment(FALSE, {"comment 1"}, {"Comment"}),
                   {"findRecord", "findRelated"}),
           {"constructor"}) }

\* the documents the fetcher can answer with
Served == {Doc(name) : name \in server}

----------------------------------------------------------------------------
(* Specification *)

Init ==
  /\ \E d \in Deployments :
       /\ kebabCase = d.kebabCase /\ server = d.server /\ app = d.app
       /\ calls = d.calls /\ asked = d.asked
       /\ definitions = d.definitions
       /\ heap = d.made
  /\ LET reg == registerAll(definitions, 1, EmptyRegistry)
     IN /\ modelRegistry = reg.modelRegistry
        /\ modelsByType = reg.modelsByType
        /\ relsRegistry = reg.relsRegistry
        /\ recordsByType = reg.recordsByType
  /\ inflight = EmptyBag
  /\ ops = 0
  /\ returned = {}
  /\ last = Did("", "return", "", "", "", 0, "", <<>>)

Next ==
  \/ \E call \in CreateCalls, generated \in GeneratedIds :
       /\ "createRecord" \in calls /\ call.ctor \in app
       /\ CreateRecord(call.ctor, call.properties, generated)
  \/ "unloadAll" \in calls /\ UnloadAll
  \/ \E ctor \in app : "findAll" \in calls /\ FindAllCall(ctor)
  \/ \E rq \in BagToSet(inflight), doc \in Served : FindAllResponse(rq, doc)
  \/ \E ctor \in app, id \in Ids : "findRecord" \in calls /\ FindRecordCall(ctor, id)
  \/ \E rq \in BagToSet(inflight), doc \in Served : FindRecordResponse(rq, doc)
  \/ \E ref \in 1..Len(heap), name \in asked :
       "findRelated" \in calls /\ FindRelatedCall(ref, name)
  \/ \E rq \in BagToSet(inflight), doc \in Served : FindRelatedResponse(rq, doc)
  \/ \E rq \in BagToSet(inflight) : FetchReject(rq)

Spec == Init /\ [][Next]_vars

----------------------------------------------------------------------------
(* Steps, as seen from outside *)

\* the step invokes operation op (a call step)
Invokes(op) == ops' = ops + 1 /\ last'.op = op

\* the step answers a fetcher call of operation op with doc
Answers(op, rq, doc) ==
  /\ rq.op = op
  /\ \/ op = "findAll" /\ FindAllResponse(rq, doc)
     \/ op = "findRecord" /\ FindRecordResponse(rq, doc)
     \/ op = "findRelated" /\ FindRelatedResponse(rq, doc)

\* (type, id) is held by the identity map recs
Held(recs, type, id) == type \in DOMAIN recs /\ id \in DOMAIN recs[type]

\* the registered constructors
Registered == DOMAIN modelRegistry

----------------------------------------------------------------------------
(* C1: identity.  All the references that findRecord and findAll calls     *)
(* have returned for one (type, id), with no unloadAll in between, are the *)
(* same instance.                                                          *)

IdentityInvariant ==
  \A x \in returned, y \in returned :
    (x.type = y.type /\ x.id = y.id) => x.ref = y.ref

----------------------------------------------------------------------------
(* C2: cache-first read.  A findRecord(ctor, id) invoked while the         *)
(* identity map holds (type of ctor, id) issues no fetcher call, returns   *)
(* the held instance and changes neither the map nor any record.           *)

CacheFirstRead ==
  [][ \A ctor \in Registered, id \in Ids :
        ( /\ Invokes("findRecord") /\ last'.ctor = ctor /\ last'.id = id
          /\ Held(recordsByType, modelRegistry[ctor], id) )
        => /\ inflight' = inflight
           /\ last'.end = "return"
           /\ last'.out = <<recordsByType[modelRegistry[ctor]][id]>>
           /\ heap' = heap
           /\ recordsByType' = recordsByType ]_vars

\* findRecord(Person, "1") has returned, without a fetcher call, the person
\* that came as an included resource of article 1 and is its author
CacheFirstWitness ==
  /\ last.op = "findRecord" /\ last.end = "return" /\ last.ctor = "Person"
  /\ ops = 2 /\ inflight = EmptyBag
  /\ Held(recordsByType, "articles", "1")
  /\ heap[recordsByType["articles"]["1"]].f["author"] = One(last.out[1])
  /\ heap[last.out[1]].f["firstName"] = Str("Dan")
  /\ heap[last.out[1]].f["title"] = Undefined
  /\ heap[recordsByType["articles"]["1"]].f["title"] = Str("JSON:API paints my bikeshed!")

----------------------------------------------------------------------------
(* C3: unload clears everything.  unloadAll leaves every bucket empty, and *)
(* a findRecord invoked while every bucket is empty, for a registered      *)
(* constructor and any id, issues a fetcher call for (type, id).           *)

UnloadClearsEverything ==
  [][ /\ Invokes("unloadAll") => \A type \in DOMAIN recordsByType' : recordsByType'[type] = EmptyMap
      /\ \A ctor \in Registered, id \in Ids :
           ( /\ \A type \in DOMAIN recordsByType : recordsByType[type] = EmptyMap
             /\ Invokes("findRecord") /\ last'.ctor = ctor /\ last'.id = id )
           => /\ last'.end = "await"
              /\ inflight' = Awaiting(Pending("findRecord", "fetchDocument", ctor, id, "", 0)) ]_vars

\* findRecord awaits the fetcher for an id whose earlier instance was unloaded
UnloadWitness ==
  /\ last.op = "findRecord" /\ last.end = "await"
  /\ \A type \in DOMAIN recordsByType : recordsByType[type] = EmptyMap
  /\ \E r \in 1..Len(heap) : heap[r].ctor = last.ctor /\ heap[r].f["id"] = Str(last.id)
  /\ BagIn(Pending("findRecord", "fetchDocument", last.ctor, last.id, "", 0), inflight)

----------------------------------------------------------------------------
(* Documents and what materializing them must give *)

\* the step materializes doc for findAll or findRecord
Materializes(rq, doc) == Answers("findAll", rq, doc) \/ Answers("findRecord", rq, doc)

\* the resources of doc, included first
ResourcesOf(doc) == doc.included.items \o doc.data

\* no (type, id) occurs twice in doc
EachOnce(doc) ==
  \A i, j \in 1..Len(ResourcesOf(doc)) :
    (ResourcesOf(doc)[i].type = ResourcesOf(doc)[j].type
       /\ ResourcesOf(doc)[i].id = ResourcesOf(doc)[j].id) => i = j

\* after the step, the record held for resource res of doc is held for no
\* other resource of doc: no later resource of the document writes over it
Unshared(doc, res) ==
  \A i \in 1..Len(ResourcesOf(doc)) :
    LET other == ResourcesOf(doc)[i]
    IN (Held(recordsByType', other.type, other.id)
        /\ recordsByType'[other.type][other.id] = recordsByType'[res.type][res.id])
       => (other.type = res.type /\ other.id = res.id)

\* every relationship of res is declared on the model of its type and its
\* data has the declared shape: an array for has-many, one identifier for
\* belongs-to, each identifier of the declared target type
Linkable(res) ==
  /\ res.type \in DOMAIN modelsByType
  /\ \A e \in 1..Len(res.relationships.entries) :
       LET entry == res.relationships.entries[e]
           ctor == modelsByType[res.type]
           name == camel(entry.name)
       IN /\ ctor \in DOMAIN relsRegistry
          /\ name \in relsRegistry[ctor].names
          /\ entry.data.kind = (IF relsRegistry[ctor].type[name] = HasMany THEN "many" ELSE "one")
          /\ \A k \in 1..Len(entry.data.ids) :
               entry.data.ids[k].type = modelRegistry[relsRegistry[ctor].ctor[name]]
          /\ \A f \in 1..Len(res.relationships.entries) :
               camel(res.relationships.entries[f].name) = name => f = e

\* the attribute keys of res are distinct and none is a relationship name
PlainAttributes(res) ==
  \A a \in 1..Len(res.attributes) :
    /\ \A b \in 1..Len(res.attributes) :
         camel(res.attributes[a].key) = camel(res.attributes[b].key) => a = b
    /\ \A e \in 1..Len(res.relationships.entries) :
         camel(res.attributes[a].key) # camel(res.relationships.entries[e].name)

\* every identifier res links to is a resource of doc.included
AllIncluded(res, doc) ==
  \A e \in 1..Len(res.relationships.entries) :
    \A k \in 1..Len(res.relationships.entries[e].data.ids) :
      \E i \in 1..Len(doc.included.items) :
        /\ doc.included.items[i].type = res.relationships.entries[e].data.ids[k].type
        /\ doc.included.items[i].id = res.relationships.entries[e].data.ids[k].id

\* the kinds of relationship res links
KindsOf(res) ==
  {relsRegistry[modelsByType[res.type]].type[camel(res.relationships.entries[e].name)] :
     e \in 1..Len(res.relationships.entries)}

\* record ref carries the defined attributes of res
HasAttributes(h, ref, res) ==
  \A a \in 1..Len(res.attributes) :
    res.attributes[a].value # Undefined
      => h[ref].f[camel(res.attributes[a].key)] = res.attributes[a].value

----------------------------------------------------------------------------
(* C4: materializing, for findAll or findRecord of the matching            *)
(* constructor, a document in which no resource occurs twice, whose        *)
(* primary resources link a has-many and a belongs-to relationship and     *)
(* whose linked resources are all included, returns records carrying the   *)
(* wire attributes, the has-many field the records of the identifiers in   *)
(* wire order, the belongs-to field the record of the identifier; each     *)
(* included record carries its wire attributes, unless the identity map    *)
(* holds the same record for another resource of the document too.         *)

Canonical(rq, doc) ==
  /\ doc.included.present
  /\ EachOnce(doc)
  /\ \A i \in 1..Len(ResourcesOf(doc)) :
       Linkable(ResourcesOf(doc)[i]) /\ PlainAttributes(ResourcesOf(doc)[i])
  /\ \A i \in 1..Len(doc.data) :
       /\ doc.data[i].type = modelRegistry[rq.ctor]
       /\ AllIncluded(doc.data[i], doc)
       /\ KindsOf(doc.data[i]) = {HasMany, BelongsTo}

MaterializesFixture ==
  [][ \A rq \in BagToSet(inflight), doc \in Served :
        (Materializes(rq, doc) /\ Canonical(rq, doc))
        => /\ last'.end = "return"
           /\ \A i \in 1..Len(doc.included.items) :
                LET inc == doc.included.items[i]
                IN Unshared(doc, inc)
                   => HasAttributes(heap', recordsByType'[inc.type][inc.id], inc)
           /\ \A i \in 1..Len(doc.data) :
                LET res == doc.data[i]
                    ref == last'.out[i]
                    rels == relsRegistry[rq.ctor]
                IN /\ heap'[ref].ctor = rq.ctor
                   /\ HasAttributes(heap', ref, res)
                   /\ \A e \in 1..Len(res.relationships.entries) :
                        LET name == camel(res.relationships.entries[e].name)
                            ids == res.relationships.entries[e].data.ids
                            bucket == recordsByType'[modelRegistry[rels.ctor[name]]]
                        IN heap'[ref].f[name] =
                             IF rels.type[name] = HasMany
                               THEN Many([k \in 1..Len(ids) |-> bucket[ids[k].id]])
                               ELSE One(bucket[ids[1].id]) ]_vars

\* findRecord(Article, "1") has returned article 1 of the canonical document
FixtureWitness ==
  /\ last.op = "findRecord" /\ last.end = "return" /\ last.ctor = "Article" /\ last.id = "1"
  /\ LET article == heap[last.out[1]].f
     IN /\ article["id"] = Str("1")
        /\ article["title"] = Str("JSON:API paints my bikeshed!")
        /\ article["comments"].kind = "array"
        /\ Len(article["comments"].rs) = 2
        /\ heap[article["comments"].rs[1]].f["body"] = Str("First!")
        /\ heap[article["comments"].rs[2]].f["body"] = Str("I like XML better")
        /\ article["author"].kind = "record"
        /\ heap[article["author"].rs[1]].f["firstName"] = Str("Dan")

----------------------------------------------------------------------------
(* C5: the link pass wires included resources too.  When findAll has       *)
(* materialized a document with included data in which no resource occurs  *)
(* twice, every declared belongs-to relationship of an included resource   *)
(* whose identifier is held references the held record.                    *)

LinksIncluded ==
  [][ \A rq \in BagToSet(inflight), doc \in Served :
        (Answers("findAll", rq, doc) /\ last'.end = "return" /\ doc.included.present /\ EachOnce(doc))
        => \A i \in 1..Len(doc.included.items) :
             LET inc == doc.included.items[i]
                 ctor == modelsByType[inc.type]
             IN Linkable(inc)
                => \A e \in 1..Len(inc.relationships.entries) :
                     LET name == camel(inc.relationships.entries[e].name)
                         ids == inc.relationships.entries[e].data.ids
                         bucket == recordsByType'[modelRegistry[relsRegistry[ctor].ctor[name]]]
                     IN (relsRegistry[ctor].type[name] = BelongsTo /\ ids[1].id \in DOMAIN bucket)
                        => heap'[recordsByType'[inc.type][inc.id]].f[name] = One(bucket[ids[1].id]) ]_vars

\* findAll(Article) has returned article 1 whose second comment's author is Dan
LinksIncludedWitness ==
  /\ last.op = "findAll" /\ last.end = "return" /\ last.ctor = "Article"
  /\ Len(last.out) = 1
  /\ LET article == heap[last.out[1]].f
     IN /\ article["comments"].kind = "array"
        /\ Len(article["comments"].rs) = 2
        /\ LET comment == heap[article["comments"].rs[2]].f
           IN /\ comment["author"].kind = "record"
              /\ comment["author"].rs[1] = recordsByType["people"]["1"]
              /\ heap[comment["author"].rs[1]].f["firstName"] = Str("Dan")

----------------------------------------------------------------------------
(* C6: partial-update merge.  When findAll or findRecord materializes a    *)
(* document, or createRecord a property list, every field of every record  *)
(* that no attribute or relationship key of the payload names keeps its    *)
(* value; a primary resource whose id is held is written onto the held     *)
(* instance, which then carries the attributes of this payload beside      *)
(* those of the earlier ones.                                              *)

\* the fields the entries of a property list name with a defined value
NamedByProperties(properties) ==
  {camel(properties[a].key) : a \in {b \in 1..Len(properties) : properties[b].value # Undefined}}

\* the fields the resources of doc name
NamedBy(doc) ==
  UNION { NamedByProperties(ResourcesOf(doc)[i].attributes)
            \cup {camel(ResourcesOf(doc)[i].relationships.entries[e].name) :
                    e \in 1..Len(ResourcesOf(doc)[i].relationships.entries)} :
          i \in 1..Len(ResourcesOf(doc)) }

PartialUpdateMerge ==
  [][ /\ \A rq \in BagToSet(inflight), doc \in Served :
           Materializes(rq, doc)
           => /\ \A ref \in 1..Len(heap), fld \in FieldNames \ NamedBy(doc) :
                   heap'[ref].f[fld] = heap[ref].f[fld]
              /\ \A i \in 1..Len(doc.data) :
                   LET res == doc.data[i]
                       type == modelRegistry[rq.ctor]
                   IN ( /\ last'.end = "return" /\ Held(recordsByType, type, res.id)
                        /\ EachOnce(doc) /\ PlainAttributes(res) )
                      => /\ recordsByType'[type][res.id] = recordsByType[type][res.id]
                         /\ HasAttributes(heap', recordsByType[type][res.id], res)
      /\ \A call \in CreateCalls, generated \in GeneratedIds :
           CreateRecord(call.ctor, call.properties, generated)
           => \A ref \in 1..Len(heap), fld \in FieldNames \ NamedByProperties(call.properties) :
                heap'[ref].f[fld] = heap[ref].f[fld] ]_vars

\* person 1, materialized from two sparse payloads, carries both attributes
MergeWitness ==
  /\ last.op \in {"findAll", "findRecord"} /\ last.end = "return" /\ last.ctor = "Person"
  /\ Len(heap) = 1
  /\ last.out = <<1>>
  /\ heap[1].f["firstName"] = Str("Dan")
  /\ heap[1].f["lastName"] = Str("Gebhardt")

----------------------------------------------------------------------------
(* C7: null overwrites, undefined does not.  On the record findAll,        *)
(* findRecord or createRecord returns for a payload, an attribute whose    *)
(* value is null leaves the field null, and one whose value is undefined   *)
(* leaves the field as it was (as the constructor set it, on a new         *)
(* record).                                                                *)

\* record ref, which was `before`, has taken the null and undefined entries
TakesNullNotUndefined(ref, before, properties) ==
  \A a \in 1..Len(properties) :
    /\ properties[a].value = Null => heap'[ref].f[camel(properties[a].key)] = Null
    /\ properties[a].value = Undefined
         => heap'[ref].f[camel(properties[a].key)] = before.f[camel(properties[a].key)]

NullOverwrites ==
  [][ /\ \A rq \in BagToSet(inflight), doc \in Served :
           (Materializes(rq, doc) /\ last'.end = "return" /\ EachOnce(doc))
           => \A i \in 1..Len(doc.data) :
                LET res == doc.data[i]
                    ref == last'.out[i]
                IN PlainAttributes(res)
                   => TakesNullNotUndefined(ref,
                        IF ref <= Len(heap) THEN heap[ref] ELSE NewModel(rq.ctor, res.id),
                        res.attributes)
      /\ \A call \in CreateCalls, generated \in GeneratedIds :
           (CreateRecord(call.ctor, call.properties, generated) /\ last'.end = "return")
           => LET ref == last'.out[1]
              IN TakesNullNotUndefined(ref,
                   IF ref <= Len(heap) THEN heap[ref] ELSE NewModel(call.ctor, last'.id),
                   call.properties) ]_vars

\* person 1 has lost its first name to a null and kept its last name
\* through an undefined
NullWitness ==
  /\ last.op \in {"findAll", "findRecord"} /\ last.end = "return" /\ last.ctor = "Person"
  /\ ops = 3
  /\ Len(heap) = 1
  /\ last.out = <<1>>
  /\ heap[1].f["firstName"] = Null
  /\ heap[1].f["lastName"] = Str("Gebhardt")

----------------------------------------------------------------------------
(* C8: merge idempotence.  In every state, materializing a served document *)
(* for a registered constructor and then materializing it again gives the  *)
(* records, the identity map and the returned references that materializing*)
(* it once gives.                                                          *)

MergeIdempotence ==
  \A ctor \in Registered, doc \in Served :
    LET once == resourcesToRecords(Current, ctor, doc.data, doc.included)
        twice == resourcesToRecords(Store(once.heap, once.recs), ctor, doc.data, doc.included)
    IN once.err = "" => twice = once

\* findAll(Article) has materialized the canonical document a second time
IdempotenceWitness ==
  /\ last.op = "findAll" /\ last.end = "return" /\ last.ctor = "Article"
  /\ ops = 2 /\ inflight = EmptyBag
  /\ Len(heap) = 4
  /\ heap[1].ctor = "Person"
  /\ ArticlesDoc \in Served
  /\ resourcesToRecords(Current, "Article", ArticlesDoc.data, ArticlesDoc.included)
       = [Current EXCEPT !.out = last.out]

----------------------------------------------------------------------------
(* C9: null relationship.  When findAll or findRecord materializes a       *)
(* document with included data whose primary resource, of the              *)
(* constructor's type, has a declared belongs-to relationship with data    *)
(* null, the operation returns and the field of the record is null or      *)
(* undefined.                                                              *)

\* the relationships of res are declared, and those with data null are belongs-to
NullLinkable(res) ==
  /\ res.type \in DOMAIN modelsByType
  /\ modelsByType[res.type] \in DOMAIN relsRegistry
  /\ \A e \in 1..Len(res.relationships.entries) :
       LET entry == res.relationships.entries[e]
           rels == relsRegistry[modelsByType[res.type]]
       IN /\ camel(entry.name) \in rels.names
          /\ entry.data.kind = "null" /\ rels.type[camel(entry.name)] = BelongsTo

NullRelationship ==
  [][ \A rq \in BagToSet(inflight), doc \in Served :
        ( /\ Materializes(rq, doc) /\ doc.included.present /\ EachOnce(doc)
          /\ \A i \in 1..Len(doc.data) :
               doc.data[i].type = modelRegistry[rq.ctor] /\ NullLinkable(doc.data[i]) )
        => /\ last'.end = "return"
           /\ \A i \in 1..Len(doc.data) : \A e \in 1..Len(doc.data[i].relationships.entries) :
                heap'[last'.out[i]].f[camel(doc.data[i].relationships.entries[e].name)]
                  \in {Null, Undefined} ]_vars

----------------------------------------------------------------------------
(* C10: unresolvable has-many identifier.  When findAll or findRecord      *)
(* materializes a document with included data, a declared has-many field   *)
(* of a primary resource becomes the records of those identifiers, in wire *)
(* order, whose id a record of the declared target type holds - held       *)
(* before, or materialized from this document - and the operation returns. *)

\* the resources of doc whose record goes to the bucket of type, for ctor
MaterializedInto(doc, ctor, type) ==
  {doc.included.items[i].id :
     i \in {j \in 1..Len(doc.included.items) : doc.included.items[j].type = type}}
  \cup {doc.data[i].id : i \in {j \in 1..Len(doc.data) : modelRegistry[ctor] = type}}

\* the primary resources of doc are of the type of the constructor, no
\* resource occurs twice and every relationship is declared and well shaped
WellFormed(rq, doc) ==
  /\ doc.included.present
  /\ EachOnce(doc)
  /\ \A i \in 1..Len(ResourcesOf(doc)) : Linkable(ResourcesOf(doc)[i])
  /\ \A i \in 1..Len(doc.data) : doc.data[i].type = modelRegistry[rq.ctor]

\* identifier rid is a resource of doc.included
InIncluded(rq, doc, relType, rid) ==
  \E i \in 1..Len(doc.included.items) :
    doc.included.items[i].type = rid.type /\ doc.included.items[i].id = rid.id

\* a record of relType holds the id of rid, or doc brings one
InIdentityMap(rq, doc, relType, rid) ==
  \/ rid.id \in DOMAIN recordsByType[relType]
  \/ rid.id \in MaterializedInto(doc, rq.ctor, relType)

\* the has-many fields of the primary resources hold the records of the
\* identifiers that Keeps keeps
HasManyOf(rq, doc, Keeps(_, _, _, _)) ==
  /\ last'.end = "return"
  /\ \A i \in 1..Len(doc.data) : \A e \in 1..Len(doc.data[i].relationships.entries) :
       LET entry == doc.data[i].relationships.entries[e]
           rels == relsRegistry[rq.ctor]
           name == camel(entry.name)
           relType == modelRegistry[rels.ctor[name]]
           kept == SelectSeq(entry.data.ids, LAMBDA rid : Keeps(rq, doc, relType, rid))
       IN rels.type[name] = HasMany
          => heap'[last'.out[i]].f[name]
               = Many([k \in 1..Len(kept) |-> recordsByType'[relType][kept[k].id]])

\* as claimed: the identifiers that are resources of included are kept
UnresolvedExcludedOriginal ==
  [][ \A rq \in BagToSet(inflight), doc \in Served :
        (Materializes(rq, doc) /\ WellFormed(rq, doc))
        => HasManyOf(rq, doc, InIncluded) ]_vars

UnresolvedExcluded ==
  [][ \A rq \in BagToSet(inflight), doc \in Served :
        (Materializes(rq, doc) /\ WellFormed(rq, doc))
        => HasManyOf(rq, doc, InIdentityMap) ]_vars

\* findAll(Article) has returned article 1 with the one comment that is
\* held, its first comment being neither included nor in the identity map
UnresolvedWitness ==
  /\ last.op = "findAll" /\ last.end = "return" /\ last.ctor = "Article"
  /\ ArticleLostComment \in Served
  /\ Len(last.out) = 1
  /\ "1" \notin DOMAIN recordsByType["comments"]
  /\ Held(recordsByType, "comments", "2")
  /\ heap[last.out[1]].f["comments"] = Many(<<recordsByType["comments"]["2"]>>)

----------------------------------------------------------------------------
(* C11: undeclared relationship names are ignored.  When findAll or        *)
(* findRecord materializes a document with included data whose primary     *)
(* resources, of the constructor's type, carry relationship names their    *)
(* model does not declare beside well-shaped declared ones, the operation  *)
(* returns, a field of an undeclared name keeps its value, and each        *)
(* declared belongs-to whose identifier is held references the held        *)
(* record.                                                                 *)

\* entry names a relationship the model of ctor declares
Declares(ctor, entry) ==
  ctor \in DOMAIN relsRegistry /\ camel(entry.name) \in relsRegistry[ctor].names

\* the declared relationships of res have data of the declared shape
DeclaredWellShaped(ctor, res) ==
  \A e \in 1..Len(res.relationships.entries) :
    LET entry == res.relationships.entries[e]
    IN Declares(ctor, entry)
       => entry.data.kind = (IF relsRegistry[ctor].type[camel(entry.name)] = HasMany
                               THEN "many" ELSE "one")

UndeclaredIgnored ==
  [][ \A rq \in BagToSet(inflight), doc \in Served :
        ( /\ Materializes(rq, doc) /\ doc.included.present /\ EachOnce(doc)
          /\ \A i \in 1..Len(doc.included.items) : Linkable(doc.included.items[i])
          /\ \A i \in 1..Len(doc.data) :
               /\ doc.data[i].type = modelRegistry[rq.ctor]
               /\ DeclaredWellShaped(rq.ctor, doc.data[i]) )
        => /\ last'.end = "return"
           /\ \A i \in 1..Len(doc.data) : \A e \in 1..Len(doc.data[i].relationships.entries) :
                LET entry == doc.data[i].relationships.entries[e]
                    name == camel(entry.name)
                    ref == last'.out[i]
                IN IF Declares(rq.ctor, entry)
                     THEN LET rels == relsRegistry[rq.ctor]
                              bucket == recordsByType'[modelRegistry[rels.ctor[name]]]
                          IN (rels.type[name] = BelongsTo /\ entry.data.ids[1].id \in DOMAIN bucket)
                             => heap'[ref].f[name] = One(bucket[entry.data.ids[1].id])
                     ELSE (name \in FieldNames /\ ref <= Len(heap))
                          => heap'[ref].f[name] = heap[ref].f[name] ]_vars

----------------------------------------------------------------------------
(* C12: without included, relationships are left alone.  When findAll or   *)
(* findRecord materializes a document that has no included member, the     *)
(* operation returns, the attributes are applied, every relationship field *)
(* of every existing record keeps its value and a record created by the    *)
(* step has its relationship fields as the constructor set them.           *)

\* the names some model declares as a relationship
RelationshipFields == UNION {relsRegistry[ctor].names : ctor \in DOMAIN relsRegistry}

\* the primary resources of doc stripped of their relationships
AttributesOnly(doc) ==
  Document([i \in 1..Len(doc.data) |-> [doc.data[i] EXCEPT !.relationships = NoRelationships]],
           NoIncluded)

NoIncludedLeavesLinks ==
  [][ \A rq \in BagToSet(inflight), doc \in Served :
        (Materializes(rq, doc) /\ ~doc.included.present)
        => /\ last'.end = "return"
           /\ \A i \in 1..Len(doc.data) :
                PlainAttributes(doc.data[i]) /\ EachOnce(doc)
                  => HasAttributes(heap', last'.out[i], doc.data[i])
           /\ \A ref \in 1..Len(heap'),
                 fld \in (RelationshipFields \cap FieldNames) \ NamedBy(AttributesOnly(doc)) :
                heap'[ref].f[fld] = IF ref <= Len(heap) THEN heap[ref].f[fld]
                                    ELSE NewModel(heap'[ref].ctor, "").f[fld] ]_vars

\* article 1 has taken the title of the document without included and kept
\* the author and the two comments an earlier document linked
NoIncludedWitness ==
  /\ last.op \in {"findAll", "findRecord"} /\ last.end = "return" /\ last.ctor = "Article"
  /\ Len(last.out) = 1
  /\ LET article == heap[last.out[1]].f
     IN /\ article["title"] = Str("Rails is Omakase")
        /\ article["author"].kind = "record"
        /\ heap[article["author"].rs[1]].f["firstName"] = Str("Dan")
        /\ article["comments"].kind = "array"
        /\ Len(article["comments"].rs) = 2

----------------------------------------------------------------------------
(* C13: the returned list.  When findAll returns, its records are one per  *)
(* primary resource of the document, in the order of the resources: the    *)
(* i-th is the record the identity map holds for the constructor's type    *)
(* under the id of the i-th resource, and its id is that id.               *)

\* the list findAll returns follows the primary resources of doc
FollowsResources(rq, doc) ==
  /\ Len(last'.out) = Len(doc.data)
  /\ \A i \in 1..Len(doc.data) :
       last'.out[i] = recordsByType'[modelRegistry[rq.ctor]][doc.data[i].id]

ReturnsInOrder ==
  [][ \A rq \in BagToSet(inflight), doc \in Served :
        (Answers("findAll", rq, doc) /\ last'.end = "return")
        => /\ FollowsResources(rq, doc)
           /\ \A i \in 1..Len(doc.data) :
                "id" \notin NamedByProperties(doc.data[i].attributes)
                  => heap'[last'.out[i]].f["id"] = Str(doc.data[i].id) ]_vars

----------------------------------------------------------------------------
(* C14: registry bijection.  For every (type, ctor) pair of the model      *)
(* definitions the store was constructed with, the constructor-to-type     *)
(* lookup gives that type and the type-to-constructor lookup gives that    *)
(* constructor.                                                            *)

RegistryBijection ==
  \A i \in 1..Len(definitions) :
    /\ getModelType(definitions[i].ctor) = definitions[i].type
    /\ getModel(definitions[i].type) = definitions[i].ctor

----------------------------------------------------------------------------
(* C15: unregistered models.  A call of createRecord, findAll, findRecord  *)
(* or findRelated with a constructor that is not registered (for           *)
(* findRelated: on a record of such a constructor) throws 'model not       *)
(* defined' in the call itself: no fetcher call is issued and the identity *)
(* map and the records are as before.                                      *)

Operations == {"createRecord", "findAll", "findRecord", "findRelated"}

UnregisteredRaises ==
  [][ \A op \in Operations :
        (Invokes(op) /\ last'.ctor \notin Registered)
        => /\ last'.end = "throw"
           /\ last'.err = "Model not defined"
           /\ inflight' = inflight
           /\ recordsByType' = recordsByType
           /\ heap' = heap ]_vars

\* findRelated has been called on the record of class Tag that the
\* application constructed, in a store that registers no Tag
UnregisteredWitness ==
  /\ "Tag" \notin Registered
  /\ last.op = "findRelated" /\ last.ctor = "Tag" /\ last.ref = 1
  /\ last.end = "throw"
  /\ Len(heap) = 1

----------------------------------------------------------------------------
(* C16: undeclared relationship requested.  A call of findRelated on a     *)
(* record of a registered model with a name the model does not declare, or *)
(* on a record of a model that declares no relationships, throws in the    *)
(* call itself: no fetcher call is issued, and the records and the         *)
(* identity map are as before.                                             *)

\* the registered model of ctor declares no relationship called name
Undeclared(ctor, name) ==
  \/ ctor \notin DOMAIN relsRegistry
  \/ name \notin relsRegistry[ctor].names

UndeclaredRaises ==
  [][ (Invokes("findRelated") /\ last'.ctor \in Registered
       /\ Undeclared(last'.ctor, last'.name))
      => /\ last'.end = "throw"
         /\ last'.err = IF last'.ctor \in DOMAIN relsRegistry
                          THEN "Relationship not defined"
                          ELSE "Model has no relationships"
         /\ inflight' = inflight
         /\ heap' = heap
         /\ recordsByType' = recordsByType ]_vars

----------------------------------------------------------------------------
(* C17: findRelated.  A call of findRelated(record, name) with a declared  *)
(* name issues one fetcher call, fetchBelongsTo for a belongs-to           *)
(* relationship and fetchHasMany for a has-many one, and none when it is   *)
(* answered.  Each resource of the answer is then the record the bucket of *)
(* the relationship's target model held under its id, or a new one, and is *)
(* held there afterwards; record[name] is that record (belongs-to) or the  *)
(* list of them in the order of the answer (has-many).  A findRecord of    *)
(* the target model called right after, for an id under which the bucket   *)
(* holds one of them, returns that instance without a fetcher call.        *)

\* the declared relationship of ctor called name: target constructor, kind
Declared(ctor, name) ==
  ctor \in DOMAIN relsRegistry /\ relOf(relsRegistry[ctor], name) = "declared"

TargetOf(ctor, name) == relsRegistry[ctor].ctor[name]

FetchOf(ctor, name) ==
  IF relsRegistry[ctor].type[name] = BelongsTo THEN "fetchBelongsTo" ELSE "fetchHasMany"

\* reference ref is, after the step, the record got or created for id in
\* the bucket of type
GotOrCreated(type, id, ref) ==
  /\ Held(recordsByType, type, id) => ref = recordsByType[type][id]
  /\ ~Held(recordsByType, type, id) => ref \in (Len(heap) + 1)..Len(heap')
  /\ Held(recordsByType', type, id)
  /\ recordsByType'[type][id] = ref

FindRelatedFetchesAndAssigns ==
  [][ /\ \A ref \in 1..Len(heap), name \in asked :
           (FindRelatedCall(ref, name) /\ heap[ref].ctor \in Registered
            /\ Declared(heap[ref].ctor, name))
           => /\ last'.end = "await"
              /\ inflight' = Awaiting(Pending("findRelated", FetchOf(heap[ref].ctor, name),
                                              heap[ref].ctor, heap[ref].f["id"].s, name, ref))
              /\ heap' = heap /\ recordsByType' = recordsByType
      /\ \A rq \in BagToSet(inflight), doc \in Served :
           (Answers("findRelated", rq, doc) /\ Declared(rq.ctor, rq.name))
           => LET type == modelRegistry[TargetOf(rq.ctor, rq.name)]
                  field == heap'[rq.ref].f[rq.name]
              IN /\ last'.end = "return"
                 /\ inflight' = Answered(rq)
                 /\ rq.fetch = FetchOf(rq.ctor, rq.name)
                 /\ field.kind = IF rq.fetch = "fetchBelongsTo" THEN "record" ELSE "array"
                 /\ Len(field.rs) = Len(doc.data)
                 /\ \A i \in 1..Len(doc.data) :
                      /\ GotOrCreated(type, doc.data[i].id, field.rs[i])
                      /\ heap'[field.rs[i]].ctor = TargetOf(rq.ctor, rq.name)
      /\ \A id \in Ids :
           ( /\ last.op = "findRelated" /\ last.end = "return"
             /\ Declared(last.ctor, last.name)
             /\ Invokes("findRecord")
             /\ last'.ctor = TargetOf(last.ctor, last.name) /\ last'.id = id
             /\ Held(recordsByType, modelRegistry[last'.ctor], id)
             /\ \E i \in 1..Len(heap[last.ref].f[last.name].rs) :
                  heap[last.ref].f[last.name].rs[i] = recordsByType[modelRegistry[last'.ctor]][id] )
           => /\ last'.end = "return"
              /\ last'.out = <<recordsByType[modelRegistry[last'.ctor]][id]>>
              /\ inflight' = inflight ]_vars

\* findRelated(article, 'comments') was answered with comments 2 and 1, in
\* that order, and findRecord(Comment, '2') has then returned the first
\* record of article.comments without a fetcher call
FindRelatedWitness ==
  /\ last.op = "findRecord" /\ last.ctor = "Comment" /\ last.id = "2"
  /\ last.end = "return"
  /\ inflight = EmptyBag
  /\ Held(recordsByType, "articles", "1")
  /\ LET comments == heap[recordsByType["articles"]["1"]].f["comments"]
     IN /\ comments.kind = "array" /\ Len(comments.rs) = 2
        /\ last.out = <<comments.rs[1]>>
        /\ heap[comments.rs[1]].f["id"] = Str("2")
        /\ heap[comments.rs[2]].f["id"] = Str("1")
        /\ heap[comments.rs[1]].f["body"] = Str("I like XML better")

----------------------------------------------------------------------------
(* C18: createRecord.  createRecord(ctor, properties) for a registered     *)
(* constructor issues no fetcher call and returns a record; its id is      *)
(* properties.id when the properties have one and a generated id           *)
(* otherwise; the bucket of the constructor's type holds the returned      *)
(* record under that id, which a new record has as its id field; the       *)
(* record carries every property that is not                               *)
(* undefined; and its relationship fields, unless the properties name      *)
(* them, are as they were, or as the constructor sets them for a new       *)
(* record.                                                                 *)

CreateRecordLocal ==
  [][ \A call \in CreateCalls, generated \in GeneratedIds :
        (CreateRecord(call.ctor, call.properties, generated) /\ call.ctor \in Registered)
        => LET given == propertyOf(call.properties, "id", 1)
               id == IF given = Undefined THEN generated ELSE given.s
               type == modelRegistry[call.ctor]
           IN /\ inflight' = inflight
              /\ last'.end = "return"
              /\ Len(last'.out) = 1
              /\ Held(recordsByType', type, id)
              /\ recordsByType'[type][id] = last'.out[1]
              /\ last'.out[1] > Len(heap) => heap'[last'.out[1]].f["id"] = Str(id)
              /\ \A a \in 1..Len(call.properties) :
                   call.properties[a].value # Undefined
                     => heap'[last'.out[1]].f[camel(call.properties[a].key)]
                          = call.properties[a].value
              /\ \A fld \in (RelationshipFields \cap FieldNames)
                              \ NamedByProperties(call.properties) :
                   heap'[last'.out[1]].f[fld]
                     = IF last'.out[1] <= Len(heap) THEN heap[last'.out[1]].f[fld]
                       ELSE NewModel(call.ctor, "").f[fld] ]_vars

\* createRecord(Person, {firstName: 'test'}) has returned a new person
\* under a generated id, and createRecord(Article, {id: '1', ...}) before
\* it an article under the id given
CreateRecordWitness ==
  /\ last.op = "createRecord" /\ last.ctor = "Person" /\ last.end = "return"
  /\ inflight = EmptyBag
  /\ last.id \in GeneratedIds
  /\ recordsByType["people"] = put(EmptyMap, last.id, last.out[1])
  /\ heap[last.out[1]] = [NewModel("Person", last.id) EXCEPT !.f["firstName"] = Str("test")]
  /\ Held(recordsByType, "articles", "1")
  /\ heap[recordsByType["articles"]["1"]].f["lastName"] = Str("test")
  /\ heap[recordsByType["articles"]["1"]].f["comments"] = Many(<<>>)

----------------------------------------------------------------------------
(* C19: no coalescing.  Every findRecord call for a registered constructor *)
(* and an id its bucket does not hold issues a fetcher call of its own,    *)
(* also while a fetcher call for the same type and id awaits its answer:   *)
(* two such calls leave two fetcher calls in flight.                       *)

\* the fetcher call findRecord(ctor, id) issues
FetchOfRecord(ctor, id) == Pending("findRecord", "fetchDocument", ctor, id, "", 0)

NoCoalescing ==
  [][ \A ctor \in Registered, id \in Ids :
        ( /\ Invokes("findRecord") /\ last'.ctor = ctor /\ last'.id = id
          /\ ~Held(recordsByType, modelRegistry[ctor], id) )
        => /\ last'.end = "await"
           /\ CopiesIn(FetchOfRecord(ctor, id), inflight')
                = CopiesIn(FetchOfRecord(ctor, id), inflight) + 1
           /\ BagCardinality(inflight') = BagCardinality(inflight) + 1 ]_vars

\* two findRecord(Comment, '2') calls, nothing held: two fetcher calls for
\* (comments, 2) await their answers
NoCoalescingWitness ==
  /\ ops = 2
  /\ last.op = "findRecord" /\ last.end = "await" /\ last.ctor = "Comment" /\ last.id = "2"
  /\ ~Held(recordsByType, "comments", "2")
  /\ CopiesIn(FetchOfRecord("Comment", "2"), inflight) = 2

----------------------------------------------------------------------------
(* C20: concurrent findRecord.  When a findRecord call for (type, id) has  *)
(* just returned while another findRecord call for the same (type, id) is  *)
(* still awaiting its fetch, and that other call returns on its answer,    *)
(* the answer is materialized onto the instance the first call returned,   *)
(* the other call returns that same instance, and the instance then        *)
(* carries the attributes of the answer that came last.                    *)

\* findRecord(rq.ctor, rq.id) has just returned and rq, a fetcher call of
\* another findRecord for the same constructor and id, awaits its answer
OtherJustReturned(rq) ==
  /\ rq.op = "findRecord"
  /\ last.op = "findRecord" /\ last.end = "return"
  /\ last.ctor = rq.ctor /\ last.id = rq.id

ConcurrentFindRecordConverges ==
  [][ \A rq \in BagToSet(inflight), doc \in Served :
        (OtherJustReturned(rq) /\ Answers("findRecord", rq, doc) /\ last'.end = "return")
        => /\ last'.out = last.out
           /\ PlainAttributes(doc.data[1])
                => HasAttributes(heap', last.out[1], doc.data[1]) ]_vars

----------------------------------------------------------------------------
(* C21: transport errors.  findAll, findRecord and findRelated change no   *)
(* record and no bucket up to their fetcher call, and when the fetcher     *)
(* rejects that call the operation throws the fetcher's error, no fetcher  *)
(* call is issued in its place, and the records and the identity map are   *)
(* as they were.                                                           *)

Fetching == {"findAll", "findRecord", "findRelated"}

TransportErrorPropagates ==
  [][ /\ \A op \in Fetching :
           (Invokes(op) /\ last'.end = "await")
           => heap' = heap /\ recordsByType' = recordsByType
      /\ \A rq \in BagToSet(inflight) :
           FetchReject(rq)
           => /\ rq.op \in Fetching
              /\ last'.op = rq.op /\ last'.end = "throw" /\ last'.err = "transport"
              /\ inflight' = Answered(rq)
              /\ BagCardinality(inflight') = BagCardinality(inflight) - 1
              /\ heap' = heap
              /\ recordsByType' = recordsByType ]_vars

\* the fetcher has rejected findRelated(article, 'comments') of article 1,
\* which the full document had linked to two comments
TransportErrorWitness ==
  /\ last.op = "findRelated" /\ last.end = "throw" /\ last.err = "transport"
  /\ last.name = "comments"
  /\ inflight = EmptyBag
  /\ Held(recordsByType, "articles", "1")
  /\ recordsByType["articles"]["1"] = last.ref
  /\ Len(heap[last.ref].f["comments"].rs) = 2

----------------------------------------------------------------------------
(* C22: a resource listed twice.  When findAll or findRecord returns on a  *)
(* document in which a resource is both a primary and an included          *)
(* resource, the record returned for the primary resource is the record    *)
(* the identity map holds for the resource's type and id, which is the one *)
(* the included occurrence was materialized onto and the one relationship  *)
(* fields resolve its identifier to.                                       *)

\* primary resource i and included resource j of doc are one resource
SameResource(doc, i, j) ==
  /\ doc.data[i].type = doc.included.items[j].type
  /\ doc.data[i].id = doc.included.items[j].id

NotDoubleCreated ==
  [][ \A rq \in BagToSet(inflight), doc \in Served :
        (Materializes(rq, doc) /\ last'.end = "return")
        => \A i \in 1..Len(doc.data), j \in 1..Len(doc.included.items) :
             SameResource(doc, i, j)
             => /\ Held(recordsByType', doc.data[i].type, doc.data[i].id)
                /\ last'.out[i] = recordsByType'[doc.data[i].type][doc.data[i].id] ]_vars

----------------------------------------------------------------------------
(* C23: references into the identity map.  In every state, every record a  *)
(* relationship field of a held record refers to is the instance the       *)
(* identity map holds, in the bucket of the relationship's target model,   *)
(* under that record's id.                                                 *)

\* the records the identity map holds
HeldRecords ==
  UNION { {recordsByType[type][id] : id \in DOMAIN recordsByType[type]} :
          type \in DOMAIN recordsByType }

\* the declared relationship fields of the record ref
RelationshipsOf(ref) ==
  IF heap[ref].ctor \in DOMAIN relsRegistry
    THEN relsRegistry[heap[ref].ctor].names \cap FieldNames
    ELSE {}

\* x is the instance held for its id in the bucket of constructor target
HeldAs(target, x) ==
  LET type == getModelType(target)
      id == heap[x].f["id"].s
  IN Held(recordsByType, type, id) /\ recordsByType[type][id] = x

ReferencesCurrentInstance ==
  \A ref \in HeldRecords :
    \A name \in RelationshipsOf(ref) :
      \A k \in 1..Len(heap[ref].f[name].rs) :
        HeldAs(relsRegistry[heap[ref].ctor].ctor[name], heap[ref].f[name].rs[k])

----------------------------------------------------------------------------
(* C24: lookup error.  When the answer to findRecord(ctor, id) produces no *)
(* record under the requested id (the bucket did not hold the id, and no   *)
(* resource of the document is materialized under it), findRecord throws;  *)
(* it returns no record.                                                   *)

\* materializing doc for rq puts no record under the requested id
NotProduced(rq, doc) ==
  LET type == modelRegistry[rq.ctor]
  IN /\ ~Held(recordsByType, type, rq.id)
     /\ \A i \in 1..Len(doc.data) : doc.data[i].id # rq.id
     /\ \A j \in 1..Len(doc.included.items) :
          ~(doc.included.items[j].type = type /\ doc.included.items[j].id = rq.id)

MissingRecordRaises ==
  [][ \A rq \in BagToSet(inflight), doc \in Served :
        (Answers("findRecord", rq, doc) /\ NotProduced(rq, doc))
        => /\ last'.end = "throw"
           /\ last'.out = <<>> ]_vars

----------------------------------------------------------------------------
(* C25: one suspension.  createRecord and unloadAll issue no fetcher call  *)
(* and do not end awaiting; findRecord issues none or one; findAll with a  *)
(* registered constructor and findRelated with a registered constructor    *)
(* and a name its relationships answer to issue exactly one.  A call that  *)
(* ends awaiting has changed no record and no bucket, and the step that    *)
(* resumes it (the answer or the rejection) takes its fetcher call away,   *)
(* issues no other and ends the operation: everything the operation writes *)
(* is written in that one step.                                            *)

\* the step issues exactly one fetcher call, for operation op, and awaits it
IssuesOne(op) ==
  /\ last'.end = "await"
  /\ \E rq \in BagToSet(inflight') : rq.op = op /\ inflight' = Awaiting(rq)
  /\ BagCardinality(inflight') = BagCardinality(inflight) + 1
  /\ heap' = heap /\ recordsByType' = recordsByType

\* the step issues no fetcher call and the operation does not await
IssuesNone == last'.end \in {"return", "throw"} /\ inflight' = inflight

\* findRelated(record, name) passes its three checks
Validated(ctor, name) ==
  /\ ctor \in Registered
  /\ ctor \in DOMAIN relsRegistry
  /\ relOf(relsRegistry[ctor], name) # "undefined"

\* the step resumes the operation awaiting rq and ends it
Resumes(rq) ==
  /\ last'.op = rq.op /\ last'.end \in {"return", "throw"}
  /\ inflight' = Answered(rq)
  /\ BagCardinality(inflight') = BagCardinality(inflight) - 1

SuspendsOnce(validFindAll) ==
  /\ (Invokes("createRecord") \/ Invokes("unloadAll")) => IssuesNone
  /\ Invokes("findRecord") => (IssuesNone \/ IssuesOne("findRecord"))
  /\ (Invokes("findAll") /\ (validFindAll => last'.ctor \in Registered))
       => IssuesOne("findAll")
  /\ (Invokes("findRelated") /\ Validated(last'.ctor, last'.name))
       => IssuesOne("findRelated")
  /\ \A rq \in BagToSet(inflight) :
       ((\E doc \in Served : \E op \in Fetching : Answers(op, rq, doc)) \/ FetchReject(rq))
       => Resumes(rq)

SuspendsAtMostOnce == [][SuspendsOnce(TRUE)]_vars

\* the statement with every findAll issuing one fetcher call
SuspendsAtMostOnceOriginal == [][SuspendsOnce(FALSE)]_vars

\* findAll has materialized its answer in one step while another operation,
\* called before the answer came, still awaits its own
SuspendsOnceWitness ==
  /\ last.op = "findAll" /\ last.end = "return"
  /\ Len(last.out) >= 1
  /\ Len(heap) > 1
  /\ \E rq \in BagToSet(inflight) : rq.op = "findRecord"

----------------------------------------------------------------------------
(* C26: primary resources under their own type.  When findAll or           *)
(* findRecord returns, the record returned for each primary resource whose *)
(* type is registered is the record held for the resource's id in the      *)
(* bucket of the resource's type, and is an instance of the constructor    *)
(* registered for that type.                                               *)

PrimaryUnderOwnType ==
  [][ \A rq \in BagToSet(inflight), doc \in Served :
        (Materializes(rq, doc) /\ last'.end = "return")
        => \A i \in 1..Len(doc.data) :
             LET res == doc.data[i] IN
             res.type \in DOMAIN modelsByType
             => /\ Held(recordsByType', res.type, res.id)
                /\ \/ recordsByType'[res.type][res.id] = last'.out[i]
                   \/ ~EachOnce(doc)
                /\ heap'[recordsByType'[res.type][res.id]].ctor = modelsByType[res.type] ]_vars

----------------------------------------------------------------------------
(* C27: has-many is replaced.  When findAll or findRecord links a          *)
(* well-formed document with included, every declared has-many             *)
(* relationship a resource of the document carries, primary or included,   *)
(* leaves the field of the resource's record equal to the records held     *)
(* for the identifiers of this payload, in the payload's order - the empty *)
(* sequence for data: [] - whatever the field held before the step.  (A    *)
(* record the identity map holds for two resources of the document takes   *)
(* the payload of the later one; the statement is about the others.)       *)

\* the records, after the step, of the identifiers rids that resolve in the
\* bucket of relType
ResolvedOf(rq, doc, relType, rids) ==
  LET kept == SelectSeq(rids, LAMBDA rid : InIdentityMap(rq, doc, relType, rid))
  IN [k \in 1..Len(kept) |-> recordsByType'[relType][kept[k].id]]

HasManyReplaced ==
  [][ \A rq \in BagToSet(inflight), doc \in Served :
        (Materializes(rq, doc) /\ WellFormed(rq, doc))
        => /\ last'.end = "return"
           /\ \A r \in 1..Len(ResourcesOf(doc)) :
                LET res == ResourcesOf(doc)[r]
                    rels == relsRegistry[modelsByType[res.type]]
                IN \A e \in 1..Len(res.relationships.entries) :
                     LET entry == res.relationships.entries[e]
                         name == camel(entry.name)
                     IN (rels.type[name] = HasMany /\ Unshared(doc, res))
                        => heap'[recordsByType'[res.type][res.id]].f[name]
                             = Many(ResolvedOf(rq, doc, modelRegistry[rels.ctor[name]],
                                               entry.data.ids)) ]_vars

\* findAll(Article) has emptied the comments of article 1, which held the
\* two comments of an earlier document; the comments are still held
HasManyReplacedWitness ==
  /\ last.op = "findAll" /\ last.end = "return" /\ last.ctor = "Article"
  /\ ArticleEmptied \in Served
  /\ Len(last.out) = 1
  /\ heap[last.out[1]].f["comments"] = Many(<<>>)
  /\ Held(recordsByType, "comments", "1") /\ Held(recordsByType, "comments", "2")
  /\ heap[last.out[1]].f["title"] = Str("JSON:API paints my bikeshed!")

----------------------------------------------------------------------------
(* C28: resolution against the identity map.  When findAll or findRecord   *)
(* links a well-formed document with included (the empty list too), the    *)
(* operation returns and, for every declared relationship a resource of    *)
(* the document carries: an identifier whose id no record of the target    *)
(* type held and no resource of the document brings is left out (the       *)
(* has-many list has one record per other identifier, the belongs-to field *)
(* is undefined); an identifier that is not among included and whose id a  *)
(* record of the target type held before the step is that very record.     *)
(* (A record the identity map holds for two resources of the document      *)
(* takes the links of the later one; the statement is about the others.)   *)

\* the identifiers of rids that are not resources of included and that the
\* bucket of relType held before the step
HeldBefore(doc, relType, rids) ==
  SelectSeq(rids, LAMBDA rid : /\ ~InIncluded(<<>>, doc, relType, rid)
                               /\ rid.id \in DOMAIN recordsByType[relType])

ResolvesAgainstIdentityMap ==
  [][ \A rq \in BagToSet(inflight), doc \in Served :
        (Materializes(rq, doc) /\ WellFormed(rq, doc))
        => /\ last'.end = "return"
           /\ \A r \in 1..Len(ResourcesOf(doc)) :
                LET res == ResourcesOf(doc)[r]
                    rels == relsRegistry[modelsByType[res.type]]
                    record == heap'[recordsByType'[res.type][res.id]]
                IN \A e \in 1..Len(res.relationships.entries) :
                     LET entry == res.relationships.entries[e]
                         name == camel(entry.name)
                         relType == modelRegistry[rels.ctor[name]]
                         rids == entry.data.ids
                         resolvable == SelectSeq(rids, LAMBDA rid :
                                                   InIdentityMap(rq, doc, relType, rid))
                         early == HeldBefore(doc, relType, rids)
                     IN IF ~Unshared(doc, res) THEN TRUE
                        ELSE IF rels.type[name] = HasMany
                          THEN /\ record.f[name].kind = "array"
                               /\ Len(record.f[name].rs) = Len(resolvable)
                               /\ \A k \in 1..Len(early) :
                                    \E x \in 1..Len(record.f[name].rs) :
                                      record.f[name].rs[x] = recordsByType[relType][early[k].id]
                          ELSE /\ resolvable = <<>> => record.f[name] = Undefined
                               /\ early # <<>>
                                    => record.f[name] = One(recordsByType[relType][early[1].id]) ]_vars

\* findAll(Article) has linked article 1 from a document whose included is
\* empty: the author, never held, is undefined; of the two comments listed
\* the one an earlier document brought is there, the other is left out
ResolvesWitness ==
  /\ last.op = "findAll" /\ last.end = "return" /\ last.ctor = "Article"
  /\ ArticleIncludedNone \in Served
  /\ Len(last.out) = 1
  /\ heap[last.out[1]].f["title"] = Str("JSON:API paints my bikeshed!")
  /\ heap[last.out[1]].f["author"] = Undefined
  /\ recordsByType["people"] = EmptyMap
  /\ DOMAIN recordsByType["comments"] = {"2"}
  /\ heap[last.out[1]].f["comments"] = Many(<<recordsByType["comments"]["2"]>>)

----------------------------------------------------------------------------
(* C29: no eviction but unloadAll.  A step of createRecord, findAll,       *)
(* findRecord or findRelated leaves every (type, id) the identity map held *)
(* held, by the same instance; a step of unloadAll leaves every bucket     *)
(* empty.                                                                  *)

\* every entry of the identity map is kept, with its instance
EntriesKept ==
  \A type \in DOMAIN recordsByType : \A id \in DOMAIN recordsByType[type] :
    /\ Held(recordsByType', type, id)
    /\ recordsByType'[type][id] = recordsByType[type][id]

NoTargetedEviction ==
  [][ /\ last'.op \in Operations => EntriesKept
      /\ last'.op = "unloadAll"
           => \A type \in DOMAIN recordsByType' : recordsByType'[type] = EmptyMap ]_vars

----------------------------------------------------------------------------
(* C30: the registry is fixed.  In every state the registered constructors *)
(* and types are those of the model definitions, and the buckets of the    *)
(* identity map are the types of the definitions, one bucket each; every   *)
(* step - an operation that returns, awaits or throws, an answer, a        *)
(* rejection, unloadAll - leaves the definitions, the registrations, the   *)
(* relationship declarations and the bucket keys as they are.              *)

\* the types the definitions register
RegisteredTypes == {definitions[i].type : i \in 1..Len(definitions)}

\* the constructors the definitions register
RegisteredCtors == {definitions[i].ctor : i \in 1..Len(definitions)}

\* one bucket per registered type, a type for every registered constructor,
\* a constructor for every registered type
AsConstructed ==
  /\ DOMAIN recordsByType = RegisteredTypes
  /\ DOMAIN modelsByType = RegisteredTypes
  /\ DOMAIN modelRegistry = RegisteredCtors
  /\ DOMAIN relsRegistry \subseteq RegisteredCtors
  /\ \A ctor \in Registered : modelRegistry[ctor] \in DOMAIN recordsByType

RegistryFixed ==
  [][ /\ AsConstructed
      /\ AsConstructed'
      /\ UNCHANGED <<definitions, modelRegistry, modelsByType, relsRegistry>>
      /\ DOMAIN recordsByType' = DOMAIN recordsByType ]_vars

\* unloadAll has emptied a store that held records, right after an
\* operation: the three buckets of the three definitions are there, empty
RegistryFixedWitness ==
  /\ last.op = "unloadAll"
  /\ ops = 3
  /\ Len(heap) >= 2
  /\ Len(definitions) = 3
  /\ DOMAIN recordsByType = {"articles", "people", "comments"}
  /\ \A type \in DOMAIN recordsByType : recordsByType[type] = EmptyMap

----------------------------------------------------------------------------
(* C31: included resource of an unregistered type.  When findAll or        *)
(* findRecord materializes a document one of whose included resources has  *)
(* a type no model is registered for, the operation throws 'model not      *)
(* defined'; the records the step creates are those of the included        *)
(* resources listed before that one, each of a registered model: none is   *)
(* created for the resource itself, and none for what follows it.          *)

\* the position of the first included resource of doc whose type is not
\* registered, 0 when there is none
FirstUnregistered(doc) ==
  LET at == {i \in 1..Len(doc.included.items) :
               doc.included.items[i].type \notin DOMAIN modelsByType}
  IN IF at = {} THEN 0 ELSE CHOOSE i \in at : \A j \in at : i <= j

UnregisteredIncludedRaises ==
  [][ \A rq \in BagToSet(inflight), doc \in Served :
        (Materializes(rq, doc) /\ doc.included.present /\ FirstUnregistered(doc) > 0)
        => /\ last'.end = "throw"
           /\ last'.err = "Model not defined"
           /\ last'.out = <<>>
           /\ Len(heap') - Len(heap) < FirstUnregistered(doc)
           /\ \A ref \in (Len(heap) + 1)..Len(heap') :
                \E i \in 1..(FirstUnregistered(doc) - 1) :
                  /\ heap'[ref].ctor = modelsByType[doc.included.items[i].type]
                  /\ heap'[ref].f["id"] = Str(doc.included.items[i].id)
           /\ DOMAIN recordsByType' = DOMAIN recordsByType ]_vars

\* findAll(Article) has thrown on the document that includes a tag: the
\* person listed before the tag is the only record there is
UnregisteredIncludedWitness ==
  /\ last.op = "findAll" /\ last.ctor = "Article"
  /\ last.end = "throw" /\ last.err = "Model not defined"
  /\ ArticleIncludedTag \in Served
  /\ "tags" \notin DOMAIN modelsByType
  /\ Len(heap) = 1 /\ heap[1].ctor = "Person"
  /\ recordsByType["articles"] = EmptyMap

----------------------------------------------------------------------------
(* C32: keyed by id.  In every state each entry of each bucket is keyed by *)
(* the id of the record it holds, and no record is held under two keys.    *)

KeyedById ==
  /\ \A type \in DOMAIN recordsByType : \A k \in DOMAIN recordsByType[type] :
       heap[recordsByType[type][k]].f["id"] = Str(k)
  /\ \A t1 \in DOMAIN recordsByType, t2 \in DOMAIN recordsByType :
       \A k1 \in DOMAIN recordsByType[t1], k2 \in DOMAIN recordsByType[t2] :
         recordsByType[t1][k1] = recordsByType[t2][k2] => (t1 = t2 /\ k1 = k2)

----------------------------------------------------------------------------
(* C33: identifiers resolve by type and id.  When findAll or findRecord    *)
(* links a document with included whose primary resources are of the       *)
(* constructor's type, with each resource once and every relationship      *)
(* declared and of the declared shape, every record a relationship field   *)
(* of a resource's record refers to is the record held for the type and    *)
(* the id of one of the identifiers of that relationship's payload.        *)

\* every relationship of res is declared on the model of its type, once,
\* and its data has the declared shape; the types of the identifiers are
\* as the wire has them
Shaped(res) ==
  /\ res.type \in DOMAIN modelsByType
  /\ \A e \in 1..Len(res.relationships.entries) :
       LET entry == res.relationships.entries[e]
           ctor == modelsByType[res.type]
           name == camel(entry.name)
       IN /\ ctor \in DOMAIN relsRegistry
          /\ name \in relsRegistry[ctor].names
          /\ entry.data.kind = (IF relsRegistry[ctor].type[name] = HasMany THEN "many" ELSE "one")
          /\ \A f \in 1..Len(res.relationships.entries) :
               camel(res.relationships.entries[f].name) = name => f = e

ResolvesByTypeAndId ==
  [][ \A rq \in BagToSet(inflight), doc \in Served :
        ( /\ Materializes(rq, doc) /\ doc.included.present /\ EachOnce(doc)
          /\ \A i \in 1..Len(ResourcesOf(doc)) : Shaped(ResourcesOf(doc)[i])
          /\ \A i \in 1..Len(doc.data) : doc.data[i].type = modelRegistry[rq.ctor]
          /\ last'.end = "return" )
        => \A r \in 1..Len(ResourcesOf(doc)) :
             LET res == ResourcesOf(doc)[r]
                 record == heap'[recordsByType'[res.type][res.id]]
             IN Unshared(doc, res)
                => \A e \in 1..Len(res.relationships.entries) :
                     LET entry == res.relationships.entries[e]
                         field == record.f[camel(entry.name)]
                     IN \A x \in 1..Len(field.rs) :
                          \E k \in 1..Len(entry.data.ids) :
                            LET rid == entry.data.ids[k]
                            IN /\ Held(recordsByType', rid.type, rid.id)
                               /\ recordsByType'[rid.type][rid.id] = field.rs[x] ]_vars

----------------------------------------------------------------------------
(* C34: failure atomicity.  When findAll or findRecord throws while        *)
(* materializing the document it received, the records and the identity    *)
(* map are as they were before the step.                                   *)

FailedMaterializationLeavesNothing ==
  [][ \A rq \in BagToSet(inflight), doc \in Served :
        (Materializes(rq, doc) /\ last'.end = "throw")
        => /\ heap' = heap
           /\ recordsByType' = recordsByType ]_vars

----------------------------------------------------------------------------
(* C35: the record that is linked is the record that is returned.  When    *)
(* findAll or findRecord returns on a document with included, the record   *)
(* the link pass has looked up for each primary resource - the one held    *)
(* for the resource's type and id - is the record returned for that        *)
(* resource.                                                               *)

LinksTheReturnedRecord ==
  [][ \A rq \in BagToSet(inflight), doc \in Served :
        (Materializes(rq, doc) /\ doc.included.present /\ last'.end = "return")
        => \A i \in 1..Len(doc.data) :
             /\ Held(recordsByType', doc.data[i].type, doc.data[i].id)
             /\ recordsByType'[doc.data[i].type][doc.data[i].id] = last'.out[i] ]_vars

----------------------------------------------------------------------------
(* C36: createRecord on an id that is held reuses the record.  When        *)
(* createRecord is called for a registered constructor with an id already  *)
(* held for its type, no instance is allocated and the identity map is     *)
(* unchanged; the held record is returned, each property that is not       *)
(* undefined is written to its field, and every other field of the record, *)
(* relationship fields included, and every other record stay as they were. *)

\* the value the properties write to field fld
WrittenTo(properties, fld) ==
  properties[CHOOSE a \in 1..Len(properties) :
               camel(properties[a].key) = fld /\ properties[a].value # Undefined].value

CreateRecordReusesHeld ==
  [][ \A call \in CreateCalls, generated \in GeneratedIds :
        LET given == propertyOf(call.properties, "id", 1)
            id == IF given = Undefined THEN generated ELSE given.s
        IN (/\ CreateRecord(call.ctor, call.properties, generated)
            /\ call.ctor \in Registered
            /\ Held(recordsByType, modelRegistry[call.ctor], id))
           => LET ref == recordsByType[modelRegistry[call.ctor]][id]
              IN /\ last'.end = "return"
                 /\ last'.out = <<ref>>
                 /\ Len(heap') = Len(heap)
                 /\ recordsByType' = recordsByType
                 /\ \A r \in 1..Len(heap) : r # ref => heap'[r] = heap[r]
                 /\ heap'[ref].ctor = heap[ref].ctor
                 /\ \A fld \in FieldNames :
                      heap'[ref].f[fld]
                        = IF fld \in NamedByProperties(call.properties)
                            THEN WrittenTo(call.properties, fld)
                            ELSE heap[ref].f[fld] ]_vars

\* createRecord(Article, {id: '1', ...}) has returned article 1, which holds
\* the two comments an earlier findRelated assigned
CreateRecordReusesWitness ==
  /\ last.op = "createRecord" /\ last.ctor = "Article" /\ last.end = "return"
  /\ last.out = <<recordsByType["articles"]["1"]>>
  /\ heap[last.out[1]].f["lastName"] = Str("test")
  /\ heap[last.out[1]].f["comments"].kind = "array"
  /\ Len(heap[last.out[1]].f["comments"].rs) = 2

----------------------------------------------------------------------------
(* C37: a response in flight over unloadAll puts nothing back.  When the   *)
(* last operation was unloadAll and the fetcher then answers a findAll,    *)
(* findRecord or findRelated - a call that was therefore in flight when    *)
(* unloadAll ran - every bucket of the identity map is still empty after   *)
(* the answer has been handled.                                            *)

UnloadedStaysEmpty ==
  [][ \A op \in Fetching, rq \in BagToSet(inflight), doc \in Served :
        (last.op = "unloadAll" /\ Answers(op, rq, doc))
        => \A type \in DOMAIN recordsByType' : recordsByType'[type] = EmptyMap ]_vars

----------------------------------------------------------------------------
(* C38: every call that awaits the fetcher completes.  Under the           *)
(* assumption that the fetcher answers each call it receives, with a       *)
(* document or a rejection, each findAll, findRecord and findRelated in    *)
(* flight is eventually taken out of flight: whenever calls are in flight, *)
(* eventually none is; a call leaves flight only in a step in which that   *)
(* very call returns or throws; and as long as a call is in flight, the    *)
(* step that completes it on the fetcher's answer can be taken, whatever   *)
(* else is in flight.                                                      *)

\* the fetch findRelated awaits for relationship name of a ctor record
fetchOf(ctor, name) ==
  IF /\ ctor = "Article" \/ ctor = "Comment"
     /\ name = "author"
    THEN "fetchBelongsTo" ELSE "fetchHasMany"

\* the calls a store operation can be awaiting; findRelated is called on one
\* of the records MaxOps operations have created
Requests ==
  {Pending("findAll", "fetchDocument", ctor, "", "", 0) : ctor \in Ctors}
    \cup {Pending("findRecord", "fetchDocument", f[1], f[2], "", 0) : f \in Ctors \X Ids}
    \cup {Pending("findRelated", fetchOf(f[1], f[3]), f[1], f[2], f[3], f[4]) :
            f \in {"Article", "Comment"} \X Ids \X (RelationshipNames \cup {"constructor"})
                    \X (1..(2 * MaxOps))}

\* the fetcher settles the promise rq awaits and the operation runs to its end
Completes(rq) ==
  /\ BagIn(rq, inflight)
  /\ inflight' = Answered(rq)
  /\ FetchReject(rq) \/ \E doc \in Served : Answers(rq.op, rq, doc)

\* the store with a fetcher that answers each call
FairSpec == Spec /\ \A rq \in Requests : WF_vars(Completes(rq))

\* the state a step that completes rq leaves
Completed(rq) ==
  /\ last.op = rq.op /\ last.end \in {"return", "throw"}
  /\ last.ctor = rq.ctor /\ last.id = rq.id /\ last.name = rq.name /\ last.ref = rq.ref

EveryCallCompletes ==
  /\ [](BagToSet(inflight) \subseteq Requests)
  /\ [](\A rq \in BagToSet(inflight) : ENABLED Completes(rq))
  /\ [][ \A rq \in BagToSet(inflight) :
           CopiesIn(rq, inflight') < CopiesIn(rq, inflight)
           => /\ CopiesIn(rq, inflight') = CopiesIn(rq, inflight) - 1
              /\ Completed(rq)' ]_vars
  /\ (inflight # EmptyBag) ~> (inflight = EmptyBag)

\* two operations were invoked, the second a findAll, and none is in flight
\* any more: the findAll has returned the records of the fetcher's answer
EveryCallCompletesWitness ==
  /\ ops = 2 /\ inflight = EmptyBag
  /\ last.op = "findAll" /\ last.end = "return" /\ Len(last.out) >= 1
  /\ \A i \in 1..Len(last.out) : last.out[i] \in 1..Len(heap)

====
